---------------------------- MODULE Spec2Model ----------------------------
(***************************************************************************)
(* Document ingestion pipeline of BitcoinBrain: the chunker                *)
(* (services/chunking_service.py), the embedder                            *)
(* (services/embedding_service.py) and the ingest handler                  *)
(* (routers/tools.py, services/pdf_service.py, database.py).               *)
(*                                                                         *)
(* Texts are sequences of characters over a four-letter alphabet: a letter,*)
(* a sentence terminator, a space and a newline.  Token budgets are scaled *)
(* down from 800/100 to small numbers drawn in Init.                       *)
(***************************************************************************)
EXTENDS Integers, Sequences, FiniteSets, TLC

(***************************************************************************)
(* Bounds of the model.                                                    *)
(***************************************************************************)
MaxLen == 6
MaxT == 3
MaxTexts == 4
MaxBatch == 2
MaxPages == 2
MaxSliceLen == 5
MaxRun == 12

(***************************************************************************)
(* Characters and Python string primitives.                                *)
(***************************************************************************)
NL == "\n"
SP == " "
Chars == {"a", ".", SP, NL}

\* the text of a special token of the encoding, such as "<|endoftext|>",
\* taken as one character; it occurs in page texts only
ST == "<|endoftext|>"

\* Encoding.encode with its default disallowed_special: text that holds a
\* special token is refused with ValueError
encode_refuses(t) == \E i \in 1..Len(t) : t[i] = ST

IsSpace(c) == c \in {SP, NL}
IsLetter(c) == c = "a"
IsTerminator(c) == c = "."

SetMin(S) == CHOOSE x \in S : \A y \in S : x <= y
SetMax(S) == CHOOSE x \in S : \A y \in S : x >= y

\* str.strip()
strip(s) ==
    LET solid == {i \in 1..Len(s) : ~IsSpace(s[i])}
    IN  IF solid = {} THEN <<>> ELSE SubSeq(s, SetMin(solid), SetMax(solid))

RECURSIVE Flatten(_)
Flatten(ss) == IF ss = <<>> THEN <<>> ELSE Head(ss) \o Flatten(Tail(ss))

(***************************************************************************)
(* The tokenizer (tiktoken).  A token is a piece of text; a space followed *)
(* by a letter is one token (GPT-style leading-space merge), every other   *)
(* character is a token of its own.  decode concatenates the pieces.       *)
(***************************************************************************)
RECURSIVE encode(_)
encode(s) ==
    IF s = <<>> THEN <<>>
    ELSE IF Len(s) >= 2 /\ s[1] = SP /\ IsLetter(s[2])
         THEN <<SubSeq(s, 1, 2)>> \o encode(SubSeq(s, 3, Len(s)))
         ELSE <<SubSeq(s, 1, 1)>> \o encode(Tail(s))

decode(tokens) == Flatten(tokens)

count_tokens(s) == IF s = <<>> THEN 0 ELSE Len(encode(s))

(***************************************************************************)
(* re.split(r'\n\s*\n', text): the leftmost newline whose whitespace run   *)
(* holds another newline starts a break; the break runs to the last        *)
(* newline of that run.                                                    *)
(***************************************************************************)
BreakEnds(s, i) ==
    {j \in (i + 1)..Len(s) : s[j] = NL /\ \A k \in (i + 1)..(j - 1) : IsSpace(s[k])}

RECURSIVE split_paragraph_breaks(_)
split_paragraph_breaks(s) ==
    LET starts == {i \in 1..Len(s) : s[i] = NL /\ BreakEnds(s, i) # {}}
    IN  IF starts = {} THEN <<s>>
        ELSE LET i == SetMin(starts)
                 j == SetMax(BreakEnds(s, i))
             IN  <<SubSeq(s, 1, i - 1)>> \o split_paragraph_breaks(SubSeq(s, j + 1, Len(s)))

(***************************************************************************)
(* re.split(r'(?<=[.!?])\s+', para): a whitespace run that follows a       *)
(* sentence terminator separates two sentences.                            *)
(***************************************************************************)
RunEnd(s, i) ==
    SetMax({j \in i..Len(s) : \A k \in i..j : IsSpace(s[k])})

RECURSIVE split_sentences(_)
split_sentences(s) ==
    LET starts == {i \in 2..Len(s) : IsTerminator(s[i - 1]) /\ IsSpace(s[i])}
    IN  IF starts = {} THEN <<s>>
        ELSE LET i == SetMin(starts)
                 j == RunEnd(s, i)
             IN  <<SubSeq(s, 1, i - 1)>> \o split_sentences(SubSeq(s, j + 1, Len(s)))

(***************************************************************************)
(* State of the chunker: the inputs of create_chunks and its locals.       *)
(***************************************************************************)
VARIABLES
    text,             \* create_chunks: the logical stream
    max_tokens,       \* ChunkingService.max_tokens (T)
    overlap_tokens,   \* ChunkingService.overlap_tokens (O)
    paragraphs,       \* create_chunks: the paragraphs still to visit
    chunks,           \* create_chunks: the chunks emitted so far
    current_chunk,
    current_tokens,
    chunk_start_pos,
    slice_tokens,     \* _chunk_large_text: tokens
    slice_start,      \* _chunk_large_text: chunk_start, the window's first token
    slice_pos,        \* _chunk_large_text: start_pos
    chk_pc            \* "idle", "start", "loop", "slice", "done"

chunker_vars ==
    <<text, max_tokens, overlap_tokens, paragraphs, chunks, current_chunk,
      current_tokens, chunk_start_pos, slice_tokens, slice_start, slice_pos, chk_pc>>

(***************************************************************************)
(* State of the embedder.                                                  *)
(***************************************************************************)
VARIABLES
    texts,              \* generate_embeddings_batch: the input list
    max_batch_size,     \* EmbeddingService.max_batch_size (scaled down)
    filtered_data,      \* original indices (1-based) of the non-blank texts
    batch_start,        \* the for loop's batch_start
    attempt,            \* _generate_batch_with_retry: attempt
    embeddings_result,
    api_log,            \* history: every API call and every backoff sleep
    emb_pc              \* "idle", "start", "loop", "call", "sleep", "done", "raised"

embedder_vars ==
    <<texts, max_batch_size, filtered_data, batch_start, attempt,
      embeddings_result, api_log, emb_pc>>

(***************************************************************************)
(* State of the ingest handler and of the document store.                  *)
(***************************************************************************)
VARIABLES
    pdf,                    \* what the downloaded bytes parse to
    pdf_pc,                 \* a direct call of process_pdf_for_chunks:
                            \* "idle", "call", "returned"
    ing_pc,                 \* "idle", "download", "insert_document", "process",
                            \* "embed", "embedding", "store", "complete", "returned"
    doc_status,             \* documents.status as stored; "absent" before the insert
    status_writes,          \* history: the status values the store accepted
    processing_result,
    chunks_with_embeddings,
    insert_calls,           \* history: the argument of every insert_chunks call
    insert_failed,          \* history: an insert_chunks call raised
    response                \* "none", "success", "http_400", "http_404", "http_500"

ingest_vars ==
    <<pdf, pdf_pc, ing_pc, doc_status, status_writes, processing_result,
      chunks_with_embeddings, insert_calls, insert_failed, response>>

(***************************************************************************)
(* State of the rate limiter (middleware/rate_limiter.py).                 *)
(***************************************************************************)
VARIABLES
    requests,         \* RateLimitMiddleware.requests: IP -> request timestamps
    rate_limit,       \* RateLimitMiddleware.rate_limit
    window_seconds,   \* RateLimitMiddleware.window_seconds
    clock,            \* time.time()
    served            \* history: every request dispatched and its answer

limiter_vars == <<requests, rate_limit, window_seconds, clock, served>>

(***************************************************************************)
(* State of concurrent ingest runs: the coroutine of ingest_document for   *)
(* each request, the call frames of the embedder and the document store.   *)
(***************************************************************************)
VARIABLES
    run,          \* per request: the locals of ingest_document and its position
    emb_frames,   \* per call: the locals of generate_embeddings_batch
    documents,    \* table "documents": the status of each row, by id
    doc_chunks    \* table "doc_chunks": the rows inserted

runs_vars == <<run, emb_frames, documents, doc_chunks>>

vars == <<chunker_vars, embedder_vars, ingest_vars, limiter_vars, runs_vars>>

(***************************************************************************)
(* ChunkingService._split_into_paragraphs                                  *)
(***************************************************************************)
\* One pass of the sentence loop; acc = [refined, current_para].
merge_sentence(acc, sentence) ==
    IF count_tokens(acc.current_para \o sentence) > max_tokens \div 2
    THEN IF acc.current_para # <<>>
         THEN [refined |-> Append(acc.refined, acc.current_para), current_para |-> sentence]
         ELSE [refined |-> Append(acc.refined, sentence), current_para |-> acc.current_para]
    ELSE [refined |-> acc.refined,
          current_para |-> IF acc.current_para # <<>>
                           THEN acc.current_para \o <<SP>> \o sentence
                           ELSE sentence]

RECURSIVE merge_sentences(_, _)
merge_sentences(acc, sentences) ==
    IF sentences = <<>> THEN acc
    ELSE merge_sentences(merge_sentence(acc, Head(sentences)), Tail(sentences))

\* The refined paragraphs one paragraph contributes.
refine_paragraph(para) ==
    IF count_tokens(para) > max_tokens \div 2
    THEN LET acc == merge_sentences([refined |-> <<>>, current_para |-> <<>>],
                                    split_sentences(para))
         IN  IF acc.current_para # <<>>
             THEN Append(acc.refined, acc.current_para)
             ELSE acc.refined
    ELSE <<para>>

RECURSIVE refine_paragraphs(_)
refine_paragraphs(paras) ==
    IF paras = <<>> THEN <<>>
    ELSE refine_paragraph(Head(paras)) \o refine_paragraphs(Tail(paras))

RECURSIVE strip_and_drop_blank(_)
strip_and_drop_blank(paras) ==
    IF paras = <<>> THEN <<>>
    ELSE IF strip(Head(paras)) # <<>>
         THEN <<strip(Head(paras))>> \o strip_and_drop_blank(Tail(paras))
         ELSE strip_and_drop_blank(Tail(paras))

split_into_paragraphs(t) ==
    strip_and_drop_blank(refine_paragraphs(split_paragraph_breaks(t)))

(***************************************************************************)
(* ChunkingService._create_chunk_metadata.  origin is a ghost field: which *)
(* path of create_chunks emitted the chunk.                                *)
(***************************************************************************)
None == <<"None">>

\* None as a page value (page numbers start at 1)
NoPage == 0

\* a call of create_chunks that passes no page markers
NoMarkers == <<>>

\* ChunkingService._find_page_for_position: the first marker around position
find_page_for_position(position, page_markers) ==
    LET around == {k \in 1..Len(page_markers) :
                      /\ page_markers[k].start_pos <= position
                      /\ position <= page_markers[k].end_pos}
    IN  IF around = {} THEN NoPage ELSE page_markers[SetMin(around)].page

\* None as a section value (headers are non-empty strings)
NoSection == ""

\* ChunkingService._find_section_for_position: the header of the last marker
\* before the first one that lies beyond position
find_section_for_position(position, section_markers) ==
    LET upto == SetMax({n \in 0..Len(section_markers) :
                          \A k \in 1..n : section_markers[k].position <= position})
    IN  IF upto = 0 THEN NoSection ELSE section_markers[upto].header

create_chunk_metadata(t, start_pos, end_pos, page_markers, origin) ==
    [text        |-> strip(t),
     token_count |-> count_tokens(t),
     char_start  |-> start_pos,
     char_end    |-> end_pos,
     page        |-> find_page_for_position(start_pos, page_markers),
     \* "chunk_index": len([])
     chunk_index |-> Len(<<>>),
     origin      |-> origin]

(***************************************************************************)
(* ChunkingService._get_overlap_text                                       *)
(***************************************************************************)
get_overlap_text(t) ==
    IF t = <<>> THEN <<>>
    ELSE LET tokens == encode(t)
         IN  IF Len(tokens) <= overlap_tokens THEN t
             \* tokens[-0:] is the whole list
             ELSE IF overlap_tokens = 0 THEN decode(tokens)
             ELSE decode(SubSeq(tokens, Len(tokens) - overlap_tokens + 1, Len(tokens)))

(***************************************************************************)
(* ChunkingService._chunk_large_text: the while loop from token index      *)
(* chunk_start (0-based) and stream offset start_pos.                      *)
(***************************************************************************)
\* chunk_end = min(chunk_start + self.max_tokens, len(tokens))
window_end(chunk_start, n) ==
    IF chunk_start + max_tokens < n THEN chunk_start + max_tokens ELSE n

\* a variant that backs up by the whole budget instead of the overlap
next_chunk_start_backs_up_budget(chunk_end, n) ==
    IF chunk_end < n THEN chunk_end - max_tokens ELSE chunk_end

\* a variant that starts the next window where the last one ended
next_chunk_start_without_overlap(chunk_end, n) == chunk_end

\* "Move start position with overlap"
next_chunk_start(chunk_end, n) ==
    IF chunk_end < n THEN chunk_end - overlap_tokens ELSE chunk_end

RECURSIVE chunk_large_from(_, _, _, _)
chunk_large_from(tokens, chunk_start, start_pos, page_markers) ==
    IF chunk_start >= Len(tokens) THEN <<>>
    ELSE LET chunk_end  == window_end(chunk_start, Len(tokens))
             chunk_text == decode(SubSeq(tokens, chunk_start + 1, chunk_end))
             next_start == next_chunk_start(chunk_end, Len(tokens))
         IN  <<create_chunk_metadata(chunk_text, start_pos,
                                     start_pos + Len(chunk_text), page_markers,
                                     "slice")>>
             \o chunk_large_from(tokens, next_start, start_pos + Len(chunk_text),
                                 page_markers)

chunk_large_text(t, start_pos, page_markers) ==
    chunk_large_from(encode(t), 0, start_pos, page_markers)

(***************************************************************************)
(* ChunkingService.create_chunks: one pass of the paragraph loop over the  *)
(* locals st = [chunks, current_chunk, current_tokens, chunk_start_pos].   *)
(***************************************************************************)
close_current(st, page_markers) ==
    IF strip(st.current_chunk) # <<>>
    THEN Append(st.chunks,
                create_chunk_metadata(st.current_chunk, st.chunk_start_pos,
                                      st.chunk_start_pos + Len(st.current_chunk),
                                      page_markers, "accumulated"))
    ELSE st.chunks

\* paragraph_tokens > max_tokens: close the pending chunk, token-slice the paragraph
oversized_paragraph(st, paragraph, page_markers) ==
    [chunks          |-> close_current(st, page_markers)
                         \o chunk_large_text(paragraph,
                                             st.chunk_start_pos + Len(st.current_chunk),
                                             page_markers),
     current_chunk   |-> <<>>,
     current_tokens  |-> 0,
     \* current_chunk is already reset when the code reads its length here
     chunk_start_pos |-> st.chunk_start_pos + 0 + Len(paragraph)]

\* a variant that starts the next chunk without emitting the pending one
closing_drops_pending(st, paragraph, page_markers) ==
    LET overlap_text == get_overlap_text(st.current_chunk)
        new_chunk    == overlap_text \o paragraph
    IN  [chunks          |-> st.chunks,
         current_chunk   |-> new_chunk,
         current_tokens  |-> count_tokens(new_chunk),
         chunk_start_pos |-> st.chunk_start_pos + Len(new_chunk) - Len(overlap_text)]

\* current_tokens + paragraph_tokens > max_tokens: close, seed with the overlap tail
closing_paragraph(st, paragraph, page_markers) ==
    LET overlap_text == get_overlap_text(st.current_chunk)
        new_chunk    == overlap_text \o paragraph
    IN  [chunks          |-> close_current(st, page_markers),
         current_chunk   |-> new_chunk,
         current_tokens  |-> count_tokens(new_chunk),
         \* the code reads len(current_chunk) after reassigning it
         chunk_start_pos |-> st.chunk_start_pos + Len(new_chunk) - Len(overlap_text)]

appended_paragraph(st, paragraph) ==
    [chunks          |-> st.chunks,
     current_chunk   |-> st.current_chunk \o paragraph,
     current_tokens  |-> st.current_tokens + count_tokens(paragraph),
     chunk_start_pos |-> st.chunk_start_pos]

loop_body(st, paragraph, page_markers) ==
    LET paragraph_tokens == count_tokens(paragraph)
    IN  IF paragraph_tokens > max_tokens
        THEN oversized_paragraph(st, paragraph, page_markers)
        ELSE IF st.current_tokens + paragraph_tokens > max_tokens
        THEN closing_paragraph(st, paragraph, page_markers)
        ELSE appended_paragraph(st, paragraph)

locals == [chunks |-> chunks, current_chunk |-> current_chunk,
           current_tokens |-> current_tokens, chunk_start_pos |-> chunk_start_pos]

(***************************************************************************)
(* ChunkingService.create_chunks as a function of the stream: the loop of  *)
(* VisitParagraph run to its end.                                          *)
(***************************************************************************)
RECURSIVE run_loop(_, _, _)
run_loop(st, paras, page_markers) ==
    IF paras = <<>> THEN st
    ELSE run_loop(loop_body(st, Head(paras), page_markers), Tail(paras), page_markers)

create_chunks(t, page_markers) ==
    IF strip(t) = <<>> THEN <<>>
    ELSE close_current(run_loop([chunks |-> <<>>, current_chunk |-> <<>>,
                                 current_tokens |-> 0, chunk_start_pos |-> 0],
                                split_into_paragraphs(t), page_markers),
                       page_markers)

(***************************************************************************)
(* Embedder (services/embedding_service.py).                               *)
(***************************************************************************)
max_retries == 3
base_delay == 1

EmptyVector == <<>>

\* The vector the embedding API returns for a text.
Vector(t) == <<"vec", t>>

\* client.embeddings.create: one vector per input, in input order
api_embed(batch_texts) == [k \in 1..Len(batch_texts) |-> Vector(batch_texts[k])]

IsBlank(t) == strip(t) = <<>>

RECURSIVE non_blank_from(_, _)
non_blank_from(ts, i) ==
    IF i > Len(ts) THEN <<>>
    ELSE IF ~IsBlank(ts[i]) THEN <<i>> \o non_blank_from(ts, i + 1)
    ELSE non_blank_from(ts, i + 1)

\* faulty variant: no text is filtered out
filter_keeps_blank(ts) == [i \in 1..Len(ts) |-> i]

\* [(i, text) for i, text in enumerate(texts) if text.strip()], indices only
filter_non_blank(ts) == non_blank_from(ts, 1)

all_empty(ts) == [i \in 1..Len(ts) |-> EmptyVector]

batch_end_of(start, data) ==
    IF start + max_batch_size < Len(data) THEN start + max_batch_size ELSE Len(data)

\* filtered_data[batch_start:batch_end]
batch_data_of(start, data) == SubSeq(data, start + 1, batch_end_of(start, data))

batch_texts_of(ts, batch_data) == [k \in 1..Len(batch_data) |-> ts[batch_data[k]]]

\* faulty variant: the vectors are stored at their position in the batch
map_back_by_position(result, batch_data, batch_embeddings) ==
    [k \in 1..Len(result) |->
        IF k <= Len(batch_embeddings) THEN batch_embeddings[k] ELSE result[k]]

\* for i, embedding in enumerate(batch_embeddings): embeddings_result[batch_data[i][0]] = embedding
map_back(result, batch_data, batch_embeddings) ==
    [k \in 1..Len(result) |->
        IF \E i \in 1..Len(batch_embeddings) : batch_data[i] = k
        THEN batch_embeddings[CHOOSE i \in 1..Len(batch_embeddings) : batch_data[i] = k]
        ELSE result[k]]

\* faulty variant: a batch out of attempts clears the whole result
resolve_failed_batch_clears_all(result, data, ts) == all_empty(result)

\* a batch out of attempts: [[] for _ in texts], mapped back to its indices
resolve_failed_batch(result, data, ts) == map_back(result, data, all_empty(ts))

\* faulty variant: the first failure already gives the batch up
on_failure_gives_up_at_once(att) == "give_up"

\* faulty variant: the last failure is raised again
on_failure_reraises(att) == IF att = max_retries - 1 THEN "raise" ELSE "retry"

\* the except clause of _generate_batch_with_retry
on_failure(att) == IF att = max_retries - 1 THEN "give_up" ELSE "retry"

\* faulty variant: the delay does not grow
backoff_delay_constant(att) == base_delay

backoff_delay(att) == base_delay * (2 ^ att)

call_entry(start, att, batch_data, batch_texts, ok) ==
    [kind |-> "call", batch |-> start, attempt |-> att, items |-> batch_data,
     input |-> batch_texts, ok |-> ok, delay |-> 0]

sleep_entry(start, att, delay) ==
    [kind |-> "sleep", batch |-> start, attempt |-> att, items |-> <<>>,
     input |-> <<>>, ok |-> FALSE, delay |-> delay]

batch_data == batch_data_of(batch_start, filtered_data)
batch_texts == batch_texts_of(texts, batch_data)

(***************************************************************************)
(* utils/text_processing.clean_text, the rules that apply to the model's   *)
(* alphabet: newline runs, space runs, spaces around newlines, strip.      *)
(***************************************************************************)
RECURSIVE pick_from(_, _, _)
pick_from(s, keep, i) ==
    IF i > Len(s) THEN <<>>
    ELSE IF i \in keep THEN <<s[i]>> \o pick_from(s, keep, i + 1)
    ELSE pick_from(s, keep, i + 1)

\* the characters of s at the indices in keep, in order
pick(s, keep) == pick_from(s, keep, 1)

\* the newlines of the whitespace run that starts at i
RunNewlines(s, i) == {j \in i..RunEnd(s, i) : s[j] = NL}

\* re.sub(r'\n\s*\n\s*\n+', '\n\n', text)
RECURSIVE collapse_newlines(_)
collapse_newlines(s) ==
    LET starts == {i \in 1..Len(s) : s[i] = NL /\ Cardinality(RunNewlines(s, i)) >= 3}
    IN  IF starts = {} THEN s
        ELSE LET i == SetMin(starts)
                 j == SetMax(RunNewlines(s, i))
             IN  SubSeq(s, 1, i - 1) \o <<NL, NL>> \o collapse_newlines(SubSeq(s, j + 1, Len(s)))

\* re.sub(r'[ \t]+', ' ', text)
collapse_spaces(s) == pick(s, {i \in 1..Len(s) : ~(s[i] = SP /\ i > 1 /\ s[i - 1] = SP)})

\* index of the first character after the run of spaces that holds i
AfterSpaces(s, i) == SetMin({j \in i..(Len(s) + 1) : j = Len(s) + 1 \/ s[j] # SP})
\* index of the last character before the run of spaces that holds i
BeforeSpaces(s, i) == SetMax({j \in 0..i : j = 0 \/ s[j] # SP})

\* re.sub(r' +\n', '\n', text)
drop_spaces_before_newline(s) ==
    pick(s, {i \in 1..Len(s) :
                ~(s[i] = SP /\ AfterSpaces(s, i) <= Len(s) /\ s[AfterSpaces(s, i)] = NL)})

\* re.sub(r'\n +', '\n', text)
drop_spaces_after_newline(s) ==
    pick(s, {i \in 1..Len(s) :
                ~(s[i] = SP /\ BeforeSpaces(s, i) >= 1 /\ s[BeforeSpaces(s, i)] = NL)})

clean_text(s) ==
    IF s = <<>> THEN <<>>
    ELSE strip(drop_spaces_after_newline(drop_spaces_before_newline(
                 collapse_spaces(collapse_newlines(s)))))

(***************************************************************************)
(* PDF service (services/pdf_service.py).  A pdf is what pdfplumber makes  *)
(* of the bytes: either it cannot be opened, or it yields the raw text of  *)
(* each page.                                                              *)
(***************************************************************************)
\* the literal "\n\n--- PAGE n ---\n\n", its words shortened to one letter
page_marker == <<NL, NL, "a", NL, NL>>

RECURSIVE pages_with_text(_, _)
pages_with_text(raw_pages, page_num) ==
    IF page_num > Len(raw_pages) THEN <<>>
    ELSE LET cleaned_text == IF raw_pages[page_num] # <<>>
                             THEN clean_text(raw_pages[page_num]) ELSE <<>>
         IN  (IF cleaned_text # <<>>
              THEN <<[page |-> page_num, text |-> cleaned_text]>> ELSE <<>>)
             \o pages_with_text(raw_pages, page_num + 1)

\* PDFService.extract_text_from_pdf: raises when the bytes do not parse
extract_text_from_pdf(p) ==
    IF ~p.parses
    THEN [raised |-> TRUE, pages_data |-> <<>>]
    ELSE [raised |-> FALSE, pages_data |-> pages_with_text(p.pages, 1)]

(***************************************************************************)
(* utils/text_processing.extract_section_headers.  HA and HB each stand    *)
(* for a whole line that matches one of the header patterns and passes the *)
(* false-positive filter (for example "# Introduction"); every other line  *)
(* of the model's alphabet matches none.                                   *)
(***************************************************************************)
HA == "#A"
HB == "#B"
HeaderLines == {HA, HB}

\* text.split('\n')
RECURSIVE split_lines(_)
split_lines(s) ==
    LET breaks == {i \in 1..Len(s) : s[i] = NL}
    IN  IF breaks = {} THEN <<s>>
        ELSE <<SubSeq(s, 1, SetMin(breaks) - 1)>>
             \o split_lines(SubSeq(s, SetMin(breaks) + 1, Len(s)))

\* the loop over the lines: strip, skip blank lines, keep the header matches
RECURSIVE matched_headers(_)
matched_headers(lines) ==
    IF lines = <<>> THEN <<>>
    ELSE LET line == strip(Head(lines))
         IN  (IF Len(line) = 1 /\ line[1] \in HeaderLines THEN <<line[1]>> ELSE <<>>)
             \o matched_headers(Tail(lines))

\* "Remove duplicates while preserving order"
RECURSIVE unique_headers(_, _)
unique_headers(headers, seen) ==
    IF headers = <<>> THEN <<>>
    ELSE IF Head(headers) \in seen THEN unique_headers(Tail(headers), seen)
    ELSE <<Head(headers)>> \o unique_headers(Tail(headers), seen \cup {Head(headers)})

extract_section_headers(t) ==
    IF t = <<>> THEN <<>> ELSE unique_headers(matched_headers(split_lines(t)), {})

\* the section_markers entries one page contributes: every header of the
\* page at len(full_text) as it is after the page marker was added
page_section_markers(headers, page, position) ==
    [k \in 1..Len(headers) |->
        [header |-> headers[k], page |-> page, position |-> position]]

\* the assembly loop: acc = [full_text, page_markers, section_markers]
RECURSIVE assemble(_, _)
assemble(acc, pages_data) ==
    IF pages_data = <<>> THEN acc
    ELSE LET page_data  == Head(pages_data)
             page_start == Len(acc.full_text)
             marked     == acc.full_text \o page_marker
         IN  assemble([full_text    |-> marked \o page_data.text,
                       page_markers |-> Append(acc.page_markers,
                                               [page      |-> page_data.page,
                                                start_pos |-> page_start,
                                                end_pos   |-> Len(marked)]),
                       section_markers |->
                           acc.section_markers
                           \o page_section_markers(extract_section_headers(page_data.text),
                                                   page_data.page, Len(marked))],
                      Tail(pages_data))

\* the except clause of process_pdf_for_chunks: what it does with a failure
on_processing_failure == "return_needs_ocr"

\* the dictionary the except clause returns (raised: it would raise instead)
processing_failed ==
    [raised |-> on_processing_failure # "return_needs_ocr", chunks |-> <<>>,
     needs_ocr |-> TRUE, total_pages |-> 0, error |-> TRUE,
     chunker_called |-> FALSE, page_markers |-> <<>>, section_markers |-> <<>>,
     full_text_length |-> 0]

\* PDFService.process_pdf_for_chunks.  chunker_called and page_markers are
\* section_markers are history: the first records the call of create_chunks,
\* the others keep the local tables of page offsets and section headers.
process_pdf_for_chunks(p) ==
    LET extracted == extract_text_from_pdf(p)
    IN  IF extracted.raised
        THEN processing_failed
        ELSE IF extracted.pages_data = <<>>
        THEN [raised |-> FALSE, chunks |-> <<>>, needs_ocr |-> TRUE,
              total_pages |-> 0, error |-> FALSE,
              chunker_called |-> FALSE, page_markers |-> <<>>, section_markers |-> <<>>,
     full_text_length |-> 0]
        ELSE LET stream == assemble([full_text |-> <<>>, page_markers |-> <<>>,
                                     section_markers |-> <<>>],
                                    extracted.pages_data)
             IN  IF encode_refuses(stream.full_text)
                 THEN [processing_failed EXCEPT !.chunker_called = TRUE]
                 ELSE [raised |-> FALSE, chunks |-> create_chunks(stream.full_text,
                                                 stream.page_markers),
                       needs_ocr |-> FALSE, total_pages |-> Len(extracted.pages_data),
                       error |-> FALSE, chunker_called |-> TRUE,
                       page_markers |-> stream.page_markers,
                       section_markers |-> stream.section_markers,
                       full_text_length |-> Len(stream.full_text)]

(***************************************************************************)
(* Ingest handler (routers/tools.py) and the document store (database.py). *)
(***************************************************************************)
NoResult == [raised |-> FALSE, chunks |-> <<>>, needs_ocr |-> FALSE,
             total_pages |-> 0, error |-> FALSE,
             chunker_called |-> FALSE, page_markers |-> <<>>, section_markers |-> <<>>,
     full_text_length |-> 0]

\* SupabaseClient.update_document_status: a failed update is logged and swallowed
update_document_status(stored, status, ok) == IF ok THEN status ELSE stored

accepted_writes(log, status, ok) == IF ok THEN Append(log, status) ELSE log

\* faulty variant: every chunk is flagged as embedded
enrich_flags_every_chunk(cs, embeddings) ==
    [i \in 1..Len(cs) |->
        [text |-> cs[i].text, token_count |-> cs[i].token_count,
         char_start |-> cs[i].char_start, char_end |-> cs[i].char_end,
         page |-> cs[i].page, chunk_index |-> cs[i].chunk_index,
         origin |-> cs[i].origin,
         embedding |-> embeddings[i], has_embedding |-> TRUE]]

\* EmbeddingService.generate_embeddings_for_chunks: the enrichment loop
enrich(cs, embeddings) ==
    [i \in 1..Len(cs) |->
        [text |-> cs[i].text, token_count |-> cs[i].token_count,
         char_start |-> cs[i].char_start, char_end |-> cs[i].char_end,
         page |-> cs[i].page, chunk_index |-> cs[i].chunk_index,
         origin |-> cs[i].origin,
         embedding |-> embeddings[i], has_embedding |-> embeddings[i] # EmptyVector]]

\* ingest_document's except clause of step 4: keep the chunks, without vectors
without_embeddings(cs) ==
    [i \in 1..Len(cs) |->
        [text |-> cs[i].text, token_count |-> cs[i].token_count,
         char_start |-> cs[i].char_start, char_end |-> cs[i].char_end,
         page |-> cs[i].page, chunk_index |-> cs[i].chunk_index,
         origin |-> cs[i].origin,
         embedding |-> None, has_embedding |-> FALSE]]

chunk_texts(cs) == [i \in 1..Len(cs) |-> cs[i].text]

(***************************************************************************)
(* The chunker's steps.                                                    *)
(***************************************************************************)
\* create_chunks, entry: the blank-stream return and the paragraph split
CreateChunksStart ==
    /\ chk_pc = "start"
    /\ IF strip(text) = <<>>
       THEN /\ chk_pc' = "done"
            /\ paragraphs' = paragraphs
       ELSE /\ chk_pc' = "loop"
            /\ paragraphs' = split_into_paragraphs(text)
    /\ UNCHANGED <<text, max_tokens, overlap_tokens, chunks, current_chunk,
                   current_tokens, chunk_start_pos, slice_tokens, slice_start,
                   slice_pos>>
    /\ UNCHANGED <<embedder_vars, ingest_vars, limiter_vars, runs_vars>>

\* create_chunks, one iteration of "for paragraph in paragraphs"
VisitParagraph ==
    /\ chk_pc = "loop"
    /\ paragraphs # <<>>
    /\ LET st == loop_body(locals, Head(paragraphs), NoMarkers)
       IN  /\ chunks' = st.chunks
           /\ current_chunk' = st.current_chunk
           /\ current_tokens' = st.current_tokens
           /\ chunk_start_pos' = st.chunk_start_pos
    /\ paragraphs' = Tail(paragraphs)
    /\ UNCHANGED <<text, max_tokens, overlap_tokens, slice_tokens, slice_start,
                   slice_pos, chk_pc>>
    /\ UNCHANGED <<embedder_vars, ingest_vars, limiter_vars, runs_vars>>

\* create_chunks, after the loop: the trailing chunk and the return
FlushFinal ==
    /\ chk_pc = "loop"
    /\ paragraphs = <<>>
    /\ chunks' = close_current(locals, NoMarkers)
    /\ chk_pc' = "done"
    /\ UNCHANGED <<text, max_tokens, overlap_tokens, paragraphs, current_chunk,
                   current_tokens, chunk_start_pos, slice_tokens, slice_start,
                   slice_pos>>
    /\ UNCHANGED <<embedder_vars, ingest_vars, limiter_vars, runs_vars>>

(***************************************************************************)
(* The chunker with _chunk_large_text taken one window at a time.          *)
(***************************************************************************)
\* the streams handed to create_chunks: every short stream, and paragraphs
\* without whitespace or punctuation of up to MaxRun tokens
SliceTexts ==
    (UNION {[1..n -> Chars] : n \in 0..MaxSliceLen})
    \cup {[i \in 1..n |-> "a"] : n \in 1..MaxRun}

\* a caller hands a stream to create_chunks
CallCreateChunks ==
    /\ chk_pc = "idle"
    /\ text' \in SliceTexts
    /\ chk_pc' = "start"
    /\ UNCHANGED <<max_tokens, overlap_tokens, paragraphs, chunks, current_chunk,
                   current_tokens, chunk_start_pos, slice_tokens, slice_start,
                   slice_pos>>
    /\ UNCHANGED <<embedder_vars, ingest_vars, limiter_vars, runs_vars>>

\* one iteration of "for paragraph in paragraphs", paragraph within the budget
VisitWithinBudget ==
    /\ chk_pc = "loop"
    /\ paragraphs # <<>>
    /\ count_tokens(Head(paragraphs)) <= max_tokens
    /\ VisitParagraph

\* paragraph_tokens > max_tokens: close the pending chunk, enter _chunk_large_text
EnterLargeText ==
    /\ chk_pc = "loop"
    /\ paragraphs # <<>>
    /\ count_tokens(Head(paragraphs)) > max_tokens
    /\ chunks' = close_current(locals, NoMarkers)
    /\ slice_tokens' = encode(Head(paragraphs))
    /\ slice_start' = 0
    /\ slice_pos' = chunk_start_pos + Len(current_chunk)
    /\ chk_pc' = "slice"
    /\ UNCHANGED <<text, max_tokens, overlap_tokens, paragraphs, current_chunk,
                   current_tokens, chunk_start_pos>>
    /\ UNCHANGED <<embedder_vars, ingest_vars, limiter_vars, runs_vars>>

\* _chunk_large_text, one iteration of "while chunk_start < len(tokens)"
SliceStep ==
    /\ chk_pc = "slice"
    /\ slice_start < Len(slice_tokens)
    /\ LET chunk_end  == window_end(slice_start, Len(slice_tokens))
           chunk_text == decode(SubSeq(slice_tokens, slice_start + 1, chunk_end))
       IN  /\ chunks' = Append(chunks,
                               create_chunk_metadata(chunk_text, slice_pos,
                                                     slice_pos + Len(chunk_text),
                                                     NoMarkers, "slice"))
           /\ slice_start' = next_chunk_start(chunk_end, Len(slice_tokens))
           /\ slice_pos' = slice_pos + Len(chunk_text)
    /\ UNCHANGED <<text, max_tokens, overlap_tokens, paragraphs, current_chunk,
                   current_tokens, chunk_start_pos, slice_tokens, chk_pc>>
    /\ UNCHANGED <<embedder_vars, ingest_vars, limiter_vars, runs_vars>>

\* _chunk_large_text returns; create_chunks resets its locals for the next chunk
LeaveLargeText ==
    /\ chk_pc = "slice"
    /\ slice_start >= Len(slice_tokens)
    /\ current_chunk' = <<>>
    /\ current_tokens' = 0
    \* current_chunk is already reset when the code reads its length here
    /\ chunk_start_pos' = chunk_start_pos + 0 + Len(Head(paragraphs))
    /\ paragraphs' = Tail(paragraphs)
    /\ slice_tokens' = <<>>
    /\ slice_start' = 0
    /\ slice_pos' = 0
    /\ chk_pc' = "loop"
    /\ UNCHANGED <<text, max_tokens, overlap_tokens, chunks>>
    /\ UNCHANGED <<embedder_vars, ingest_vars, limiter_vars, runs_vars>>

(***************************************************************************)
(* The embedder's steps.                                                   *)
(***************************************************************************)
\* generate_embeddings_batch, entry: the two early returns and the setup
EmbedStart ==
    /\ emb_pc = "start"
    /\ IF texts = <<>>
       THEN /\ embeddings_result' = <<>>
            /\ filtered_data' = filtered_data
            /\ emb_pc' = "done"
       ELSE IF filter_non_blank(texts) = <<>>
       THEN /\ embeddings_result' = all_empty(texts)
            /\ filtered_data' = filter_non_blank(texts)
            /\ emb_pc' = "done"
       ELSE /\ embeddings_result' = all_empty(texts)
            /\ filtered_data' = filter_non_blank(texts)
            /\ emb_pc' = "loop"
    /\ UNCHANGED <<texts, max_batch_size, batch_start, attempt, api_log>>
    /\ UNCHANGED <<chunker_vars, ingest_vars, limiter_vars, runs_vars>>

\* the for loop takes the next batch and enters _generate_batch_with_retry
BatchBegin ==
    /\ emb_pc = "loop"
    /\ batch_start < Len(filtered_data)
    /\ attempt' = 0
    /\ emb_pc' = "call"
    /\ UNCHANGED <<texts, max_batch_size, filtered_data, batch_start,
                   embeddings_result, api_log>>
    /\ UNCHANGED <<chunker_vars, ingest_vars, limiter_vars, runs_vars>>

\* the for loop is exhausted: return embeddings_result
EmbedReturn ==
    /\ emb_pc = "loop"
    /\ batch_start >= Len(filtered_data)
    /\ emb_pc' = "done"
    /\ UNCHANGED <<texts, max_batch_size, filtered_data, batch_start, attempt,
                   embeddings_result, api_log>>
    /\ UNCHANGED <<chunker_vars, ingest_vars, limiter_vars, runs_vars>>

\* the API call returns: the batch's vectors are mapped back
ApiCallSucceeds ==
    /\ emb_pc = "call"
    /\ api_log' = Append(api_log, call_entry(batch_start, attempt, batch_data, batch_texts, TRUE))
    /\ embeddings_result' = map_back(embeddings_result, batch_data, api_embed(batch_texts))
    /\ batch_start' = batch_start + max_batch_size
    /\ emb_pc' = "loop"
    /\ UNCHANGED <<texts, max_batch_size, filtered_data, attempt>>
    /\ UNCHANGED <<chunker_vars, ingest_vars, limiter_vars, runs_vars>>

\* the API call raises: the except clause gives up, retries or (never, in
\* the code as written) lets the exception out
ApiCallFails ==
    /\ emb_pc = "call"
    /\ api_log' = Append(api_log, call_entry(batch_start, attempt, batch_data, batch_texts, FALSE))
    /\ CASE on_failure(attempt) = "give_up" ->
              /\ embeddings_result' = resolve_failed_batch(embeddings_result, batch_data, batch_texts)
              /\ batch_start' = batch_start + max_batch_size
              /\ emb_pc' = "loop"
         [] on_failure(attempt) = "retry" ->
              /\ emb_pc' = "sleep"
              /\ UNCHANGED <<embeddings_result, batch_start>>
         [] OTHER ->
              /\ emb_pc' = "raised"
              /\ UNCHANGED <<embeddings_result, batch_start>>
    /\ UNCHANGED <<texts, max_batch_size, filtered_data, attempt>>
    /\ UNCHANGED <<chunker_vars, ingest_vars, limiter_vars, runs_vars>>

\* await asyncio.sleep(delay), then the next attempt of the for loop
BackoffSleep ==
    /\ emb_pc = "sleep"
    /\ api_log' = Append(api_log, sleep_entry(batch_start, attempt, backoff_delay(attempt)))
    /\ IF attempt + 1 < max_retries
       THEN /\ attempt' = attempt + 1
            /\ emb_pc' = "call"
            /\ UNCHANGED <<embeddings_result, batch_start>>
       ELSE \* the fallback return after the loop
            /\ attempt' = attempt
            /\ embeddings_result' = resolve_failed_batch(embeddings_result, batch_data, batch_texts)
            /\ batch_start' = batch_start + max_batch_size
            /\ emb_pc' = "loop"
    /\ UNCHANGED <<texts, max_batch_size, filtered_data>>
    /\ UNCHANGED <<chunker_vars, ingest_vars, limiter_vars, runs_vars>>

(***************************************************************************)
(* The ingest handler's steps.                                             *)
(***************************************************************************)
\* step 1: s3_service.download_pdf and its three kinds of failure
Download ==
    /\ ing_pc = "download"
    /\ \E outcome \in {"ok", "FileNotFoundError", "ValueError", "Exception"} :
          CASE outcome = "ok" ->
                 /\ ing_pc' = "insert_document"
                 /\ response' = response
            [] outcome = "FileNotFoundError" ->
                 /\ ing_pc' = "returned"
                 /\ response' = "http_404"
            [] outcome = "ValueError" ->
                 /\ ing_pc' = "returned"
                 /\ response' = "http_400"
            [] OTHER ->
                 /\ ing_pc' = "returned"
                 /\ response' = "http_500"
    /\ UNCHANGED <<pdf, pdf_pc, doc_status, status_writes, processing_result,
                   chunks_with_embeddings, insert_calls, insert_failed>>
    /\ UNCHANGED <<chunker_vars, embedder_vars, limiter_vars, runs_vars>>

\* step 2: db.insert_document creates the record with status "processing"
InsertDocument ==
    /\ ing_pc = "insert_document"
    /\ \E ok \in BOOLEAN :
          IF ok
          THEN /\ doc_status' = "processing"
               /\ ing_pc' = "process"
               /\ response' = response
          ELSE /\ doc_status' = doc_status
               /\ ing_pc' = "returned"
               /\ response' = "http_500"
    /\ UNCHANGED <<pdf, pdf_pc, status_writes, processing_result, chunks_with_embeddings,
                   insert_calls, insert_failed>>
    /\ UNCHANGED <<chunker_vars, embedder_vars, limiter_vars, runs_vars>>

\* step 3: process_pdf_for_chunks, and the two early returns after it
ProcessPdf ==
    /\ ing_pc = "process"
    /\ LET result == process_pdf_for_chunks(pdf)
       IN  \E ok \in BOOLEAN :
             IF result.raised
             THEN /\ doc_status' = update_document_status(doc_status, "needs_ocr", ok)
                  /\ status_writes' = accepted_writes(status_writes, "needs_ocr", ok)
                  /\ processing_result' = processing_result
                  /\ response' = "success"
                  /\ ing_pc' = "returned"
             ELSE IF result.chunks = <<>>
             THEN /\ doc_status' = update_document_status(doc_status, "no_content", ok)
                  /\ status_writes' = accepted_writes(status_writes, "no_content", ok)
                  /\ processing_result' = result
                  /\ response' = "success"
                  /\ ing_pc' = "returned"
             ELSE /\ ok
                  /\ processing_result' = result
                  /\ ing_pc' = "embed"
                  /\ UNCHANGED <<doc_status, status_writes, response>>
    /\ UNCHANGED <<pdf, pdf_pc, chunks_with_embeddings, insert_calls, insert_failed>>
    /\ UNCHANGED <<chunker_vars, embedder_vars, limiter_vars, runs_vars>>

\* step 4: the call of generate_embeddings_for_chunks
StartEmbedding ==
    /\ ing_pc = "embed"
    /\ ing_pc' = "embedding"
    /\ texts' = chunk_texts(processing_result.chunks)
    /\ emb_pc' = "start"
    /\ UNCHANGED <<max_batch_size, filtered_data, batch_start, attempt,
                   embeddings_result, api_log>>
    /\ UNCHANGED <<pdf, pdf_pc, doc_status, status_writes, processing_result,
                   chunks_with_embeddings, insert_calls, insert_failed, response>>
    /\ UNCHANGED <<chunker_vars, limiter_vars, runs_vars>>

\* step 4: generate_embeddings_for_chunks returns the enriched chunks
EmbeddingReturns ==
    /\ ing_pc = "embedding"
    /\ emb_pc = "done"
    /\ chunks_with_embeddings' = enrich(processing_result.chunks, embeddings_result)
    /\ ing_pc' = "store"
    /\ emb_pc' = "idle"
    /\ UNCHANGED <<texts, max_batch_size, filtered_data, batch_start, attempt,
                   embeddings_result, api_log>>
    /\ UNCHANGED <<pdf, pdf_pc, doc_status, status_writes, processing_result, insert_calls,
                   insert_failed, response>>
    /\ UNCHANGED <<chunker_vars, limiter_vars, runs_vars>>

\* step 4: generate_embeddings_for_chunks raises; the chunks are kept
EmbeddingRaises ==
    /\ ing_pc = "embedding"
    /\ emb_pc = "raised"
    /\ chunks_with_embeddings' = without_embeddings(processing_result.chunks)
    /\ ing_pc' = "store"
    /\ emb_pc' = "idle"
    /\ UNCHANGED <<texts, max_batch_size, filtered_data, batch_start, attempt,
                   embeddings_result, api_log>>
    /\ UNCHANGED <<pdf, pdf_pc, doc_status, status_writes, processing_result, insert_calls,
                   insert_failed, response>>
    /\ UNCHANGED <<chunker_vars, limiter_vars, runs_vars>>

\* step 5: db.insert_chunks; on failure the status update and the 500
InsertChunks ==
    /\ ing_pc = "store"
    /\ insert_calls' = Append(insert_calls, chunks_with_embeddings)
    /\ \E stored \in BOOLEAN, ok \in BOOLEAN :
          IF stored
          THEN /\ ok
               /\ ing_pc' = "complete"
               /\ UNCHANGED <<doc_status, status_writes, insert_failed, response>>
          ELSE /\ insert_failed' = TRUE
               /\ doc_status' = update_document_status(doc_status, "error", ok)
               /\ status_writes' = accepted_writes(status_writes, "error", ok)
               /\ response' = "http_500"
               /\ ing_pc' = "returned"
    /\ UNCHANGED <<pdf, pdf_pc, processing_result, chunks_with_embeddings>>
    /\ UNCHANGED <<chunker_vars, embedder_vars, limiter_vars, runs_vars>>

\* step 6: the status update to "completed" and the success response
Complete ==
    /\ ing_pc = "complete"
    /\ \E ok \in BOOLEAN :
          /\ doc_status' = update_document_status(doc_status, "completed", ok)
          /\ status_writes' = accepted_writes(status_writes, "completed", ok)
    /\ response' = "success"
    /\ ing_pc' = "returned"
    /\ UNCHANGED <<pdf, pdf_pc, processing_result, chunks_with_embeddings, insert_calls,
                   insert_failed>>
    /\ UNCHANGED <<chunker_vars, embedder_vars, limiter_vars, runs_vars>>

\* the embedding API answers with more vectors than it was sent: the
\* mapping loop of generate_embeddings_batch raises IndexError
ApiCallMalformed ==
    /\ emb_pc = "call"
    /\ api_log' = Append(api_log, call_entry(batch_start, attempt, batch_data, batch_texts, TRUE))
    /\ emb_pc' = "raised"
    /\ UNCHANGED <<texts, max_batch_size, filtered_data, batch_start, attempt,
                   embeddings_result>>
    /\ UNCHANGED <<chunker_vars, ingest_vars, limiter_vars, runs_vars>>

\* a direct call of PDFService.process_pdf_for_chunks, from entry to return
ProcessDocument ==
    /\ pdf_pc = "call"
    /\ processing_result' = process_pdf_for_chunks(pdf)
    /\ pdf_pc' = "returned"
    /\ UNCHANGED <<pdf, ing_pc, doc_status, status_writes, chunks_with_embeddings,
                   insert_calls, insert_failed, response>>
    /\ UNCHANGED <<chunker_vars, embedder_vars, limiter_vars, runs_vars>>

(***************************************************************************)
(* Input domains.                                                          *)
(***************************************************************************)
Texts == UNION {[1..n -> Chars] : n \in 0..MaxLen}

EmbedTexts == {<<>>, <<SP>>, <<"a">>, <<".">>}
TextLists == UNION {[1..n -> EmbedTexts] : n \in 0..MaxTexts}

\* raw page texts as page.extract_text() returns them
RawPages == {<<>>, <<SP>>, <<"a">>, <<"a", ".", SP, "a">>, <<ST>>}
Pdfs == {[parses |-> FALSE, pages |-> <<>>]}
        \cup {[parses |-> TRUE, pages |-> p] :
                 p \in UNION {[1..n -> RawPages] : n \in 0..MaxPages}}

\* documents for direct calls of process_pdf_for_chunks: also pages with a
\* sentence longer than the budget, pages with a paragraph break and pages
\* with two section headers
LongPages == RawPages \cup {<<"a", "a", "a", "a", ".", SP, "a">>,
                            <<"a", NL, NL, ".", SP, "a">>,
                            <<HA, NL, "a", NL, HB, NL, "a">>}
LongPdfs == {[parses |-> FALSE, pages |-> <<>>]}
            \cup {[parses |-> TRUE, pages |-> p] :
                     p \in UNION {[1..n -> LongPages] : n \in 0..MaxPages}}

(***************************************************************************)
(* Initial states: each component at rest, or at the start of a run.       *)
(***************************************************************************)
\* the concurrent requests
Runs == {1, 2}

\* an embedder frame no call has used yet
NoFrame ==
    [texts |-> <<>>, filtered_data |-> <<>>, batch_start |-> 0, attempt |-> 0,
     embeddings_result |-> <<>>]

\* a request that has not reached the handler
NoRun ==
    [pc |-> "idle", pdf |-> [parses |-> FALSE, pages |-> <<>>], document_id |-> 0,
     chunks |-> <<>>, chunks_with_embeddings |-> <<>>, pending_status |-> "none",
     response |-> "none", outcomes |-> <<>>, malformed |-> FALSE,
     insert_failed |-> FALSE, status_lost |-> FALSE, handed |-> <<>>]

RunsIdle ==
    /\ run = [r \in Runs |-> NoRun]
    /\ emb_frames = [r \in Runs |-> NoFrame]
    /\ documents = <<>>
    /\ doc_chunks = <<>>

\* the client addresses requests come from
Clients == {"10.0.0.1", "10.0.0.2"}

LimiterIdle ==
    /\ requests = [ip \in Clients |-> <<>>]
    /\ rate_limit = 1
    /\ window_seconds = 1
    /\ clock = 0
    /\ served = <<>>

ChunkerIdle ==
    /\ text = <<>>
    /\ paragraphs = <<>>
    /\ chunks = <<>>
    /\ current_chunk = <<>>
    /\ current_tokens = 0
    /\ chunk_start_pos = 0
    /\ slice_tokens = <<>>
    /\ slice_start = 0
    /\ slice_pos = 0
    /\ chk_pc = "idle"

EmbedderIdle ==
    /\ texts = <<>>
    /\ filtered_data = <<>>
    /\ batch_start = 0
    /\ attempt = 0
    /\ embeddings_result = <<>>
    /\ api_log = <<>>
    /\ emb_pc = "idle"

IngestIdle ==
    /\ pdf = [parses |-> FALSE, pages |-> <<>>]
    /\ pdf_pc = "idle"
    /\ ing_pc = "idle"
    /\ doc_status = "absent"
    /\ status_writes = <<>>
    /\ processing_result = NoResult
    /\ chunks_with_embeddings = <<>>
    /\ insert_calls = <<>>
    /\ insert_failed = FALSE
    /\ response = "none"

InitChunker ==
    /\ text \in Texts
    /\ max_tokens \in 2..MaxT
    /\ overlap_tokens \in 0..(max_tokens - 1)
    /\ paragraphs = <<>>
    /\ chunks = <<>>
    /\ current_chunk = <<>>
    /\ current_tokens = 0
    /\ chunk_start_pos = 0
    /\ slice_tokens = <<>>
    /\ slice_start = 0
    /\ slice_pos = 0
    /\ chk_pc = "start"
    /\ EmbedderIdle /\ max_batch_size = 1
    /\ IngestIdle
    /\ LimiterIdle
    /\ RunsIdle

InitEmbedder ==
    /\ texts \in TextLists
    /\ max_batch_size \in 1..MaxBatch
    /\ filtered_data = <<>>
    /\ batch_start = 0
    /\ attempt = 0
    /\ embeddings_result = <<>>
    /\ api_log = <<>>
    /\ emb_pc = "start"
    /\ ChunkerIdle /\ max_tokens = 2 /\ overlap_tokens = 0
    /\ IngestIdle
    /\ LimiterIdle
    /\ RunsIdle

InitIngest ==
    /\ pdf \in Pdfs
    /\ pdf_pc = "idle"
    /\ ing_pc = "download"
    /\ doc_status = "absent"
    /\ status_writes = <<>>
    /\ processing_result = NoResult
    /\ chunks_with_embeddings = <<>>
    /\ insert_calls = <<>>
    /\ insert_failed = FALSE
    /\ response = "none"
    /\ ChunkerIdle
    \* ChunkingService() takes its budgets from the configuration
    /\ max_tokens = MaxT
    /\ overlap_tokens = 1
    /\ EmbedderIdle
    /\ max_batch_size \in 1..MaxBatch
    /\ LimiterIdle
    /\ RunsIdle

InitPdf ==
    /\ pdf \in LongPdfs
    /\ pdf_pc = "call"
    /\ ing_pc = "idle"
    /\ doc_status = "absent"
    /\ status_writes = <<>>
    /\ processing_result = NoResult
    /\ chunks_with_embeddings = <<>>
    /\ insert_calls = <<>>
    /\ insert_failed = FALSE
    /\ response = "none"
    /\ ChunkerIdle
    /\ max_tokens \in 2..MaxT
    /\ overlap_tokens \in 0..(max_tokens - 1)
    /\ EmbedderIdle
    /\ max_batch_size = MaxBatch
    /\ LimiterIdle
    /\ RunsIdle

(***************************************************************************)
(* Specifications.                                                         *)
(***************************************************************************)
NextChunker == CreateChunksStart \/ VisitParagraph \/ FlushFinal

SpecChunker == InitChunker /\ [][NextChunker]_vars

\* the service after construction, before any call
InitSlices ==
    /\ ChunkerIdle
    /\ max_tokens \in 2..MaxT
    /\ overlap_tokens \in 0..(max_tokens - 1)
    /\ EmbedderIdle /\ max_batch_size = 1
    /\ IngestIdle
    /\ LimiterIdle
    /\ RunsIdle

NextSlices ==
    \/ CallCreateChunks
    \/ CreateChunksStart \/ VisitWithinBudget
    \/ EnterLargeText \/ SliceStep \/ LeaveLargeText
    \/ FlushFinal

\* create_chunks is sequential code: it always takes its next step.  This is
\* WF_vars(NextSlices) written without ENABLED: a step of NextSlices is
\* possible, and changes vars, exactly while chk_pc # "done" (the guards of
\* the actions at "idle", "start", "loop" and "slice" cover every case).
SlicesFairness == ([]<>(chk_pc = "done")) \/ ([]<><<NextSlices>>_vars)

SpecSlices == InitSlices /\ [][NextSlices]_vars /\ SlicesFairness

NextEmbedder ==
    EmbedStart \/ BatchBegin \/ EmbedReturn \/ ApiCallSucceeds \/ ApiCallFails \/ BackoffSleep

\* the embedding API raises or honours its contract
SpecEmbedder == InitEmbedder /\ [][NextEmbedder]_vars

\* the same calls of generate_embeddings_batch, for the claim about the shape
\* of the batches
SpecBatches == InitEmbedder /\ [][NextEmbedder]_vars

NextIngest ==
    \/ Download \/ InsertDocument \/ ProcessPdf
    \/ StartEmbedding \/ EmbeddingReturns \/ EmbeddingRaises
    \/ InsertChunks \/ Complete
    \/ EmbedStart \/ BatchBegin \/ EmbedReturn
    \/ ApiCallSucceeds \/ ApiCallFails \/ BackoffSleep \/ ApiCallMalformed

SpecIngest == InitIngest /\ [][NextIngest]_vars

NextPdf == ProcessDocument

SpecPdf == InitPdf /\ [][NextPdf]_vars

(***************************************************************************)
(* Claims about the chunker, checked under SpecChunker.                    *)
(***************************************************************************)

\* C1: every chunk emitted by create_chunks, the overlap-seeded ones
\* included, has token_count <= T, unless it comes from a single sentence
\* unit of more than T tokens (the token-sliced path).
C1_ChunkWithinBudget ==
    \A i \in 1..Len(chunks) :
        \/ chunks[i].token_count <= max_tokens
        \/ chunks[i].origin = "slice"

(***************************************************************************)
(* Claims about the embedder, checked under SpecEmbedder.                  *)
(***************************************************************************)
Calls == {k \in 1..Len(api_log) : api_log[k].kind = "call"}
Sleeps == {k \in 1..Len(api_log) : api_log[k].kind = "sleep"}
Has(s, x) == \E j \in 1..Len(s) : s[j] = x

\* the batch of call k ran out of attempts
Exhausted(k) == k \in Calls /\ ~api_log[k].ok /\ api_log[k].attempt = max_retries - 1
\* the API answered the batch that holds text i
Succeeded(i) == \E k \in Calls : api_log[k].ok /\ Has(api_log[k].items, i)
\* the batch that holds text i ran out of attempts
GaveUp(i) == \E k \in Calls : Exhausted(k) /\ Has(api_log[k].items, i)

NonBlank == {i \in 1..Len(texts) : ~IsBlank(texts[i])}

\* C2: generate_embeddings_batch returns one output per input, in input
\* order: the API's vector for texts[i] when its batch succeeded, the empty
\* vector when texts[i] is blank; the empty list for the empty list.
C2_OneOutputPerInput ==
    emb_pc = "done" =>
        /\ Len(embeddings_result) = Len(texts)
        /\ \A i \in 1..Len(texts) :
              /\ IsBlank(texts[i]) => embeddings_result[i] = EmptyVector
              /\ Succeeded(i) => embeddings_result[i] = Vector(texts[i])
        /\ (texts = <<>> => embeddings_result = <<>>)

\* a finished run over a blank text followed by two texts of different
\* batches, both answered
C2_Witness ==
    /\ emb_pc = "done"
    /\ \E i, j, l \in 1..Len(texts) :
          /\ i < j /\ j < l
          /\ IsBlank(texts[i])
          /\ texts[j] # texts[l]
          /\ embeddings_result[j] = Vector(texts[j])
          /\ embeddings_result[l] = Vector(texts[l])
          /\ \E k1, k2 \in Calls :
                /\ api_log[k1].batch # api_log[k2].batch
                /\ Has(api_log[k1].items, j) /\ Has(api_log[k2].items, l)

\* C3: a batch that fails on every attempt leaves empty vectors at exactly
\* the original indices of its items; the vectors of every other batch,
\* obtained before or after, stay in the result.
C3_FailedBatchIsolated ==
    /\ \A k \in Calls :
          /\ Exhausted(k) =>
                \A j \in 1..Len(api_log[k].items) :
                    embeddings_result[api_log[k].items[j]] = EmptyVector
          /\ api_log[k].ok =>
                \A j \in 1..Len(api_log[k].items) :
                    embeddings_result[api_log[k].items[j]] = Vector(texts[api_log[k].items[j]])
    /\ emb_pc = "done" =>
          \A i \in NonBlank : (embeddings_result[i] = EmptyVector) <=> GaveUp(i)

\* a finished run whose second of three batches ran out of attempts
C3_Witness ==
    /\ emb_pc = "done"
    /\ \E k1, k2, k3 \in Calls :
          /\ k1 < k2 /\ k2 < k3
          /\ api_log[k1].ok /\ Exhausted(k2) /\ api_log[k3].ok
          /\ api_log[k1].batch < api_log[k2].batch
          /\ api_log[k2].batch < api_log[k3].batch

\* C4: whatever attempts fail, generate_embeddings_batch returns normally:
\* no failure reaches the caller, and every batch is still submitted.
C4_FailureNeverPropagates ==
    /\ emb_pc # "raised"
    /\ emb_pc \in {"start", "loop", "call", "sleep"} => ENABLED NextEmbedder
    /\ emb_pc = "done" =>
          \A i \in NonBlank : \E k \in Calls : Has(api_log[k].items, i)

\* a finished run in which a batch ran out of attempts and a later batch
\* was submitted all the same
C4_Witness ==
    /\ emb_pc = "done"
    /\ \E k1, k2 \in Calls :
          /\ k1 < k2
          /\ Exhausted(k1)
          /\ api_log[k2].batch > api_log[k1].batch

\* C5: a batch is submitted at most max_retries times and never again after
\* a success; after failed attempt k < max_retries - 1 the run sleeps
\* base_delay * 2^k and then makes attempt k + 1; after the last failed
\* attempt it sleeps no more and the batch resolves to empty vectors.
C5_RetrySchedule ==
    /\ \A k \in Calls :
          LET e == api_log[k]
          IN  /\ e.attempt \in 0..(max_retries - 1)
              /\ \A k2 \in Calls :
                    (k < k2 /\ api_log[k2].batch = e.batch) =>
                        /\ ~e.ok
                        /\ api_log[k2].attempt > e.attempt
              /\ (~e.ok /\ e.attempt < max_retries - 1) =>
                    IF k = Len(api_log)
                    THEN emb_pc = "sleep"
                    ELSE /\ api_log[k + 1].kind = "sleep"
                         /\ api_log[k + 1].batch = e.batch
                         /\ api_log[k + 1].delay = base_delay * (2 ^ e.attempt)
              /\ Exhausted(k) =>
                    /\ k < Len(api_log) =>
                          /\ api_log[k + 1].kind = "call"
                          /\ api_log[k + 1].batch > e.batch
                    /\ \A j \in 1..Len(e.items) :
                          embeddings_result[e.items[j]] = EmptyVector
    /\ \A k \in Sleeps :
          LET e == api_log[k]
          IN  /\ k > 1
              /\ api_log[k - 1].kind = "call"
              /\ ~api_log[k - 1].ok
              /\ api_log[k - 1].batch = e.batch
              /\ api_log[k - 1].attempt = e.attempt
              /\ IF k = Len(api_log)
                 THEN emb_pc = "call" /\ attempt = e.attempt + 1
                 ELSE /\ api_log[k + 1].kind = "call"
                      /\ api_log[k + 1].batch = e.batch
                      /\ api_log[k + 1].attempt = e.attempt + 1

\* a batch fails three times, with sleeps of 1 and 2 in between, and the
\* next batch is called
C5_Witness ==
    \E k \in 1..Len(api_log) :
        /\ k + 5 <= Len(api_log)
        /\ api_log[k].kind = "call" /\ ~api_log[k].ok /\ api_log[k].attempt = 0
        /\ api_log[k + 1].kind = "sleep" /\ api_log[k + 1].delay = 1
        /\ api_log[k + 2].kind = "call" /\ ~api_log[k + 2].ok
        /\ api_log[k + 3].kind = "sleep" /\ api_log[k + 3].delay = 2
        /\ Exhausted(k + 4)
        /\ api_log[k + 5].kind = "call" /\ api_log[k + 5].batch > api_log[k].batch

\* C6: every API call carries between 1 and max_batch_size texts, none of
\* them blank; the non-blank inputs are cut into consecutive batches in
\* input order; when every input is blank no call is made.
C6_BatchShape ==
    /\ \A k \in Calls :
          LET e == api_log[k]
          IN  /\ Len(e.input) \in 1..max_batch_size
              /\ Len(e.items) = Len(e.input)
              /\ \A j \in 1..Len(e.input) :
                    /\ ~IsBlank(e.input[j])
                    /\ e.items[j] \in 1..Len(texts)
                    /\ e.input[j] = texts[e.items[j]]
              \* in input order, skipping no non-blank text inside the batch
              /\ \A j \in 1..(Len(e.items) - 1) :
                    /\ e.items[j] < e.items[j + 1]
                    /\ \A i \in NonBlank : ~(e.items[j] < i /\ i < e.items[j + 1])
              \* the batch starts where the batches before it ended
              /\ \A i \in NonBlank :
                    i < e.items[1] <=>
                        \E k2 \in 1..(k - 1) : /\ api_log[k2].kind = "call"
                                               /\ api_log[k2].batch < e.batch
                                               /\ Has(api_log[k2].items, i)
              \* only the last batch may be short
              /\ (Len(e.input) < max_batch_size) =>
                    \A i \in NonBlank : i <= e.items[Len(e.items)]
    /\ NonBlank = {} => Calls = {}

\* a finished run over a list with a blank text whose last batch is short
C6_Witness ==
    /\ emb_pc = "done"
    /\ max_batch_size = 2
    /\ \E i \in 1..Len(texts) : IsBlank(texts[i])
    /\ \E k1, k2 \in Calls :
          /\ Len(api_log[k1].input) = 2
          /\ Len(api_log[k2].input) = 1
          /\ api_log[k2].batch > api_log[k1].batch

(***************************************************************************)
(* Claims about ingest_document, checked under SpecIngest.                 *)
(***************************************************************************)
TerminalStatuses == {"completed", "no_content", "needs_ocr", "error"}

\* C7: once the document record exists with status "processing", a run of
\* ingest_document that has finished has moved the stored status to exactly
\* one of completed, no_content, needs_ocr, error: the status is not left
\* at "processing" and has been written exactly once.
C7_TerminalStatusOnFinish ==
    (ing_pc = "returned" /\ doc_status # "absent") =>
        /\ doc_status \in TerminalStatuses
        /\ Len(status_writes) = 1

\* C8: when insert_chunks fails, the stored status is "error", the caller
\* gets an error response and "completed" is never written.
C8_StorageFailureMarksError ==
    insert_failed =>
        /\ ing_pc = "returned"
        /\ doc_status = "error"
        /\ response = "http_500"
        /\ ~Has(status_writes, "completed")

\* C9: whatever the embedding step does, insert_chunks is called once with
\* every chunk of the chunker, in the same order and number; a chunk is
\* stored with has_embedding = TRUE exactly when it carries the vector the
\* API returned for its text, and with has_embedding = FALSE otherwise.
C9_ChunksStoredDespiteEmbeddingFailure ==
    /\ Len(insert_calls) <= 1
    /\ \A c \in 1..Len(insert_calls) :
          LET stored == insert_calls[c]
              made   == processing_result.chunks
          IN  /\ Len(stored) = Len(made)
              /\ \A i \in 1..Len(made) :
                    /\ stored[i].text = made[i].text
                    /\ stored[i].token_count = made[i].token_count
                    /\ stored[i].char_start = made[i].char_start
                    /\ stored[i].char_end = made[i].char_end
                    /\ stored[i].has_embedding <=> (stored[i].embedding = Vector(made[i].text))
                    /\ ~stored[i].has_embedding => stored[i].embedding \in {EmptyVector, None}
                    \* the embedding call returned: the flag follows the batch's fate
                    /\ stored[i].embedding # None => (stored[i].has_embedding <=> Succeeded(i))
    \* the embedding step always hands over to the storage step
    /\ ing_pc = "embedding" => ENABLED NextIngest
    /\ (ing_pc \in {"complete", "returned"} /\ processing_result.chunks # <<>>) =>
          Len(insert_calls) = 1

\* insert_chunks was called with two chunks or more, one of a batch that ran
\* out of attempts and one of a batch the API answered
C9_Witness ==
    /\ Len(insert_calls) = 1
    /\ \E i, j \in 1..Len(insert_calls[1]) :
          /\ GaveUp(i) /\ ~insert_calls[1][i].has_embedding
          /\ Succeeded(j) /\ insert_calls[1][j].has_embedding

\* C10: when the bytes cannot be parsed, the pipeline does not return a
\* normal result: the run ends with a failure for its caller.
C10_UnreadableDocumentFails ==
    (~pdf.parses /\ ing_pc = "returned") =>
        /\ response # "success"
        /\ processing_result = NoResult

(***************************************************************************)
(* Claims about process_pdf_for_chunks, checked under SpecIngest (the run  *)
(* of ingest_document) or SpecPdf (a direct call).                         *)
(***************************************************************************)
\* the pages whose text is not empty after cleaning
UsablePages == {n \in 1..Len(pdf.pages) : clean_text(pdf.pages[n]) # <<>>}

\* process_pdf_for_chunks has returned its result to ingest_document
Processed == processing_result # NoResult

\* C11: for a document that parses, process_pdf_for_chunks returns normally;
\* when every page is empty after cleaning it returns needs_ocr = TRUE and
\* chunks = [] without calling the chunker or the embedder, and when some
\* page has text it returns needs_ocr = FALSE.
C11_NeedsOcrIffNoText ==
    (pdf.parses /\ Processed) =>
        /\ ~processing_result.raised
        /\ UsablePages = {} =>
              /\ processing_result.needs_ocr
              /\ processing_result.chunks = <<>>
              /\ ~processing_result.chunker_called
              /\ api_log = <<>> /\ emb_pc = "idle"
        /\ UsablePages # {} => ~processing_result.needs_ocr

\* C12: when extraction succeeds but yields no usable page, the ingest run
\* returns normally and leaves the document in the "needs_ocr" state.
C12_NoTextEndsNeedsOcr ==
    (pdf.parses /\ UsablePages = {} /\ Processed /\ ing_pc = "returned") =>
        /\ response = "success"
        /\ doc_status = "needs_ocr"

\* C13: along the chunk list that create_chunks returns for a document, the
\* page values never decrease: a chunk that has a page has one at least as
\* large as every earlier chunk that has a page.
C13_PagesNonDecreasing ==
    \A i, j \in 1..Len(processing_result.chunks) :
        (/\ i < j
         /\ processing_result.chunks[i].page # NoPage
         /\ processing_result.chunks[j].page # NoPage) =>
            processing_result.chunks[i].page <= processing_result.chunks[j].page

\* C14: the page offset table of process_pdf_for_chunks partitions
\* [0, len(full_text)): ordered by page, first start 0, each end equal to the
\* next start, last end len(full_text), each entry spanning its page's
\* marker and text.
C14_PageOffsetsPartition ==
    LET table == processing_result.page_markers
    IN  (pdf_pc = "returned" /\ table # <<>>) =>
            /\ table[1].start_pos = 0
            /\ \A k \in 1..(Len(table) - 1) :
                  /\ table[k].page < table[k + 1].page
                  /\ table[k].end_pos = table[k + 1].start_pos
            /\ table[Len(table)].end_pos = processing_result.full_text_length
            /\ \A k \in 1..Len(table) :
                  table[k].end_pos - table[k].start_pos
                      = Len(page_marker) + Len(clean_text(pdf.pages[table[k].page]))

(***************************************************************************)
(* Further claims about the chunker, checked under SpecChunker.            *)
(***************************************************************************)
\* the stream holds no paragraph break (no match of \n\s*\n)
NoParagraphBreak(t) == Len(split_paragraph_breaks(t)) = 1

\* C15: a stream of exactly T tokens without a paragraph break, with or
\* without sentence boundaries, comes back as exactly one chunk whose text
\* is the whole input (stated for streams that neither start nor end with
\* whitespace, which every chunk loses).
C15_ExactBudgetRoundTrip ==
    (/\ chk_pc = "done"
     /\ count_tokens(text) = max_tokens
     /\ NoParagraphBreak(text)
     /\ text # <<>> /\ strip(text) = text) =>
        /\ Len(chunks) = 1
        /\ chunks[1].text = text

\* the two paragraphs of a stream with exactly one paragraph break
Paragraph1 == strip(split_paragraph_breaks(text)[1])
Paragraph2 == strip(split_paragraph_breaks(text)[2])

\* the text of the last n tokens of t
LastTokens(t, n) ==
    LET tokens == encode(t)
    IN  IF n >= Len(tokens) THEN t
        ELSE decode(SubSeq(tokens, Len(tokens) - n + 1, Len(tokens)))

\* C16: a stream of two paragraphs of p1 and p2 tokens, p1 <= T, p2 <= T,
\* p1 + p2 > T, comes back as exactly two chunks: paragraph 1 with p1 tokens,
\* then the last O tokens of paragraph 1 followed by paragraph 2 with
\* O + p2 tokens, however the paragraphs divide into sentences.
C16_TwoParagraphScenario ==
    (/\ chk_pc = "done"
     /\ Len(split_paragraph_breaks(text)) = 2
     /\ Paragraph1 # <<>> /\ Paragraph2 # <<>>
     /\ count_tokens(Paragraph1) <= max_tokens
     /\ count_tokens(Paragraph2) <= max_tokens
     /\ count_tokens(Paragraph1) + count_tokens(Paragraph2) > max_tokens
     /\ overlap_tokens <= count_tokens(Paragraph1)) =>
        /\ Len(chunks) = 2
        /\ chunks[1].text = Paragraph1
        /\ chunks[1].token_count = count_tokens(Paragraph1)
        /\ chunks[2].text = strip(LastTokens(Paragraph1, overlap_tokens) \o Paragraph2)
        /\ chunks[2].token_count = overlap_tokens + count_tokens(Paragraph2)

\* the characters of t that are not whitespace
Squeeze(t) == pick(t, {i \in 1..Len(t) : ~IsSpace(t[i])})

IsSuffix(s, c) ==
    /\ Len(s) <= Len(c)
    /\ SubSeq(c, Len(c) - Len(s) + 1, Len(c)) = s

\* s is a concatenation of one piece per chunk cs[i], cs[i+1], ..., each piece
\* the end of its chunk's content (what precedes it in the chunk is overlap)
RECURSIVE CoveredFrom(_, _, _)
CoveredFrom(s, cs, i) ==
    IF i > Len(cs) THEN s = <<>>
    ELSE \E k \in 0..Len(s) :
            /\ IsSuffix(SubSeq(s, 1, k), Squeeze(cs[i].text))
            /\ CoveredFrom(SubSeq(s, k + 1, Len(s)), cs, i + 1)

RECURSIVE SumSpans(_)
SumSpans(cs) ==
    IF cs = <<>> THEN 0
    ELSE (Head(cs).char_end - Head(cs).char_start) + SumSpans(Tail(cs))

RECURSIVE SumLen(_)
SumLen(ss) == IF ss = <<>> THEN 0 ELSE Len(Head(ss)) + SumLen(Tail(ss))

\* C17: chunking neither under-counts nor drops content: the character spans
\* of the chunks add up to at least the length of the stream less the
\* whitespace removed by splitting and stripping (the total length of the
\* paragraphs the loop visits), and the content of every paragraph is found
\* in the chunks, in order, overlap apart.
C17_NoContentDropped ==
    (chk_pc = "done") =>
        /\ SumSpans(chunks) >= SumLen(split_into_paragraphs(text))
        /\ CoveredFrom(Squeeze(text), chunks, 1)

\* a stream of several paragraphs, one of them over the budget, was chunked
C17_Witness ==
    /\ chk_pc = "done"
    /\ Len(chunks) >= 3
    /\ \E i \in 1..Len(chunks) : chunks[i].origin = "slice"
    /\ \E i \in 1..Len(chunks) : chunks[i].origin = "accumulated"

\* C18: no chunk create_chunks returns has empty text (the text field is
\* stored stripped), whichever path emitted it, and a stream that is empty
\* or whitespace-only yields the empty list.
C18_NoBlankChunk ==
    (chk_pc = "done") =>
        /\ \A i \in 1..Len(chunks) : chunks[i].text # <<>>
        /\ (strip(text) = <<>>) => (chunks = <<>>)

\* C19: the token_count stored with a chunk is the tokenizer's count of the
\* text stored with it.
C19_TokenCountOfStoredText ==
    \A i \in 1..Len(chunks) : chunks[i].token_count = count_tokens(chunks[i].text)

(***************************************************************************)
(* Claims about termination, checked under SpecSlices.                     *)
(***************************************************************************)
\* the windows of _chunk_large_text leave the chunks create_chunks computes
SlicesAgree == (chk_pc = "done") => (chunks = create_chunks(text, NoMarkers))

\* C20: create_chunks terminates for every stream and every budget pair
\* 0 <= O < T: each iteration of the token-slice loop moves the window
\* start strictly forward, and the call reaches its return.
C20_SliceLoopTerminates ==
    /\ [][SliceStep => slice_start' > slice_start]_vars
    /\ (chk_pc = "start") ~> (chk_pc = "done")

\* a single paragraph without sentence punctuation, at least four times the
\* budget long, has been sliced and create_chunks has returned
C20_Witness ==
    /\ chk_pc = "done"
    /\ NoParagraphBreak(text)
    /\ \A i \in 1..Len(text) : ~IsTerminator(text[i])
    /\ count_tokens(text) >= 4 * max_tokens
    /\ Len(chunks) >= 4
    /\ \A i \in 1..Len(chunks) : chunks[i].origin = "slice"

(***************************************************************************)
(* Claims about the windows of _chunk_large_text, checked under SpecSlices.*)
(***************************************************************************)
\* token index at which window k starts when windows advance by T - O
SliceFrom(k) == k * (max_tokens - overlap_tokens)

\* token index at which window k ends in a paragraph of n tokens
SliceTo(k, n) ==
    IF SliceFrom(k) + max_tokens < n THEN SliceFrom(k) + max_tokens ELSE n

\* number of windows that cover a paragraph of n tokens
SliceCount(n) == 1 + SetMin({k \in 0..n : SliceFrom(k) + max_tokens >= n})

\* windows of the paragraph being sliced that are already emitted
SlicesEmitted ==
    IF slice_start >= Len(slice_tokens) THEN SliceCount(Len(slice_tokens))
    ELSE slice_start \div (max_tokens - overlap_tokens)

\* C22: for a paragraph of n > T tokens, slice k of _chunk_large_text starts
\* at token k*(T-O) and holds the next min(T, remaining) tokens; every slice
\* has at most T tokens, consecutive slices share exactly O tokens, the last
\* slice ends at token n and the slices cover every token of the paragraph.
C22_SliceWindows ==
    (chk_pc = "slice") =>
        LET n     == Len(slice_tokens)
            m     == SlicesEmitted
            at(k) == chunks[Len(chunks) - m + k + 1]
        IN  /\ n > max_tokens
            /\ slice_start < n => slice_start = SliceFrom(m)
            /\ m <= Len(chunks)
            /\ \A k \in 0..(m - 1) :
                  /\ at(k).origin = "slice"
                  /\ at(k).text = strip(decode(SubSeq(slice_tokens, SliceFrom(k) + 1,
                                                      SliceTo(k, n))))
                  /\ at(k).token_count = SliceTo(k, n) - SliceFrom(k)
                  /\ at(k).token_count <= max_tokens
                  /\ at(k).token_count >= 1
            /\ \A k \in 0..(m - 2) : SliceTo(k, n) - SliceFrom(k + 1) = overlap_tokens
            /\ slice_start >= n =>
                  /\ SliceTo(m - 1, n) = n
                  /\ \A j \in 0..(n - 1) :
                        \E k \in 0..(m - 1) : SliceFrom(k) <= j /\ j < SliceTo(k, n)

\* a paragraph has been sliced to its end into at least three windows with
\* a positive overlap, the last window shorter than the budget
C22_Witness ==
    /\ chk_pc = "slice"
    /\ slice_start >= Len(slice_tokens)
    /\ overlap_tokens >= 1
    /\ SlicesEmitted >= 3
    /\ chunks[Len(chunks)].token_count < max_tokens

(***************************************************************************)
(* Claims about chunk boundaries, checked under SpecChunker.               *)
(***************************************************************************)
\* the paragraph loop is at a paragraph that fits the budget alone but not
\* together with the pending chunk: the closing branch is taken
ClosingBranch ==
    /\ chk_pc = "loop"
    /\ paragraphs # <<>>
    /\ count_tokens(Head(paragraphs)) <= max_tokens
    /\ current_tokens + count_tokens(Head(paragraphs)) > max_tokens

\* C23: when create_chunks closes a chunk because the next paragraph would
\* exceed T, the closed chunk is emitted with exactly the text accumulated
\* before that paragraph, and the next chunk's text is the last O tokens of
\* the closed text (the whole text when it has at most O tokens) followed
\* by the new paragraph.
C23_CloseSeedsOverlapTail ==
    [][(ClosingBranch /\ VisitParagraph) =>
          /\ chunks' = Append(chunks, chunks'[Len(chunks')])
          /\ chunks'[Len(chunks')].text = current_chunk
          /\ current_chunk' = LastTokens(current_chunk, overlap_tokens)
                                \o Head(paragraphs)]_vars

\* later begins with a non-empty tail of earlier
BeginsWithTailOf(later, earlier) ==
    \E n \in 1..Len(earlier) :
        /\ n <= Len(later)
        /\ SubSeq(later, 1, n) = SubSeq(earlier, Len(earlier) - n + 1, Len(earlier))

\* C24: at every boundary between two consecutive chunks of a document
\* (paragraph accumulation, token-slicing, or the transition into or out of
\* a token-sliced paragraph) the later chunk begins with a non-empty tail of
\* the earlier chunk's text.  Stated for a positive overlap budget.
C24_BoundaryKeepsContext ==
    (chk_pc = "done" /\ overlap_tokens >= 1) =>
        \A i \in 1..(Len(chunks) - 1) :
            BeginsWithTailOf(chunks[i + 1].text, chunks[i].text)

(***************************************************************************)
(* _split_into_paragraphs with budgets large enough for sentences to be    *)
(* merged: the entry of create_chunks on every stream up to MaxLen         *)
(* characters and every budget up to MaxSplitT.                            *)
(***************************************************************************)
MaxSplitT == 5

InitSplit ==
    /\ text \in Texts
    /\ max_tokens \in 2..MaxSplitT
    /\ overlap_tokens = 1
    /\ paragraphs = <<>>
    /\ chunks = <<>>
    /\ current_chunk = <<>>
    /\ current_tokens = 0
    /\ chunk_start_pos = 0
    /\ slice_tokens = <<>>
    /\ slice_start = 0
    /\ slice_pos = 0
    /\ chk_pc = "start"
    /\ EmbedderIdle /\ max_batch_size = 1
    /\ IngestIdle
    /\ LimiterIdle
    /\ RunsIdle

NextSplit == CreateChunksStart

SpecSplit == InitSplit /\ [][NextSplit]_vars

\* the sentences of a paragraph as they appear in its sub-paragraphs
Sentences(para) == strip_and_drop_blank(split_sentences(para))

\* the stream is one paragraph of more than T/2 tokens and has been split
LongParagraphSplit ==
    /\ chk_pc = "loop"
    /\ NoParagraphBreak(text)
    /\ count_tokens(text) > max_tokens \div 2

\* C27: for a paragraph of more than T/2 tokens _split_into_paragraphs
\* returns sub-paragraphs that each hold at most T/2 tokens, unless the
\* sub-paragraph is a single sentence that alone exceeds T/2; the
\* sub-paragraphs hold every sentence of the paragraph once, in order.
C27_SubParagraphsWithinHalf ==
    LongParagraphSplit =>
        /\ \A i \in 1..Len(paragraphs) :
              \/ count_tokens(paragraphs[i]) <= max_tokens \div 2
              \/ /\ \E k \in 1..Len(Sentences(text)) : Sentences(text)[k] = paragraphs[i]
                 /\ count_tokens(paragraphs[i]) > max_tokens \div 2
        /\ Flatten([i \in 1..Len(paragraphs) |-> Sentences(paragraphs[i])])
              = Sentences(text)

(***************************************************************************)
(* Claims about the chunk list handed to storage, checked under SpecIngest.*)
(***************************************************************************)
\* C28: each chunk in the list handed to storage carries a chunk_index equal
\* to its position in the list (0..N-1, all distinct).
C28_SequentialChunkIndex ==
    \A c \in 1..Len(insert_calls) :
        \A i \in 1..Len(insert_calls[c]) :
            insert_calls[c][i].chunk_index = i - 1

(***************************************************************************)
(* Claims about chunk offsets, checked under SpecChunker.                  *)
(***************************************************************************)
\* the stream from offset pos on (0-based), leading whitespace dropped
StreamFrom(pos) == strip(SubSeq(text, pos + 1, Len(text)))

\* C29: for every chunk emitted by create_chunks, char_start and char_end
\* are valid offsets into the logical stream
\* (0 <= char_start <= char_end <= len(full_text)), and the chunk's content
\* begins at stream offset char_start.
C29_OffsetsWithinStream ==
    (chk_pc = "done") =>
        \A i \in 1..Len(chunks) :
            /\ 0 <= chunks[i].char_start
            /\ chunks[i].char_start <= chunks[i].char_end
            /\ chunks[i].char_end <= Len(text)
            /\ chunks[i].text # <<>> =>
                  /\ StreamFrom(chunks[i].char_start) # <<>>
                  /\ StreamFrom(chunks[i].char_start)[1] = chunks[i].text[1]

(***************************************************************************)
(* Claims about the order of the embedding calls of one ingest run,        *)
(* checked under SpecIngest.                                               *)
(***************************************************************************)
\* call k is the first API call of its batch
FirstCallOfBatch(k) == k \in Calls /\ api_log[k].attempt = 0

\* the log up to entry k holds every backoff wait of the batch that starts
\* at filtered_data[b]
WaitsDone(b, k) ==
    \A a \in 0..(max_retries - 2) :
        \E j \in 1..k :
            /\ api_log[j].kind = "sleep"
            /\ api_log[j].batch = b
            /\ api_log[j].attempt = a

\* C26: batches are processed strictly sequentially: the first API call for
\* batch i+1 happens only after batch i has succeeded or has exhausted all
\* of its attempts including its backoff waits; the call in flight (the
\* embedder is at its await) is the only one that has no answer yet.
C26_BatchesSequential ==
    /\ \A k \in 1..Len(api_log) :
          FirstCallOfBatch(k) =>
              /\ \A j \in 1..(k - 1) : api_log[j].batch < api_log[k].batch
              /\ \A j \in k..Len(api_log) : api_log[j].batch >= api_log[k].batch
              /\ api_log[k].batch > 0 =>
                    /\ k > 1
                    /\ api_log[k - 1].kind = "call"
                    /\ api_log[k - 1].batch = api_log[k].batch - max_batch_size
                    /\ \/ api_log[k - 1].ok
                       \/ /\ Exhausted(k - 1)
                          /\ WaitsDone(api_log[k - 1].batch, k - 1)
    /\ (emb_pc = "call" /\ api_log # <<>>) =>
          LET last == api_log[Len(api_log)]
          IN  IF attempt = 0
              THEN /\ last.kind = "call"
                   /\ last.batch = batch_start - max_batch_size
                   /\ last.ok \/ Exhausted(Len(api_log))
              ELSE /\ last.kind = "sleep"
                   /\ last.batch = batch_start
                   /\ last.attempt = attempt - 1

\* the second batch of a run is called after the first one failed three
\* times with its two waits, and the third after the second succeeded
C26_Witness ==
    \E k \in 2..Len(api_log) :
        /\ FirstCallOfBatch(k)
        /\ Exhausted(k - 1)
        /\ WaitsDone(api_log[k - 1].batch, k - 1)
        /\ api_log[k].ok
        /\ k < Len(api_log)
        /\ FirstCallOfBatch(k + 1)

(***************************************************************************)
(* Claims about the section table, checked under SpecPdf.                  *)
(***************************************************************************)
\* the logical stream process_pdf_for_chunks assembled for the document
FullText ==
    assemble([full_text |-> <<>>, page_markers |-> <<>>, section_markers |-> <<>>],
             extract_text_from_pdf(pdf).pages_data).full_text

\* the offsets (0-based) of the stream at which a header line stands
HeaderOffsets == {a \in 0..(Len(FullText) - 1) : FullText[a + 1] \in HeaderLines}

\* offsets a < b lie on the same page: no page marker starts between them
SamePage(a, b) ==
    \A k \in 1..Len(processing_result.page_markers) :
        ~(a < processing_result.page_markers[k].start_pos
          /\ processing_result.page_markers[k].start_pos <= b)

\* C25: the section table built by process_pdf_for_chunks is ordered by
\* position ascending and records each detected header at that header's own
\* absolute offset in the logical stream, so a position after header A and
\* before header B of the same page resolves to section A.
C25_SectionTable ==
    (pdf_pc = "returned" /\ ~processing_result.needs_ocr) =>
        LET table == processing_result.section_markers
        IN  /\ \A i \in 1..Len(table) : \A j \in i..Len(table) :
                  table[i].position <= table[j].position
            /\ \A i \in 1..Len(table) :
                  /\ table[i].position \in HeaderOffsets
                  /\ FullText[table[i].position + 1] = table[i].header
            /\ \A a \in HeaderOffsets : \A b \in HeaderOffsets :
                  (/\ a < b
                   /\ SamePage(a, b)
                   /\ \A c \in HeaderOffsets : ~(a < c /\ c < b)) =>
                      \A position \in a..(b - 1) :
                          find_section_for_position(position, table) = FullText[a + 1]

(***************************************************************************)
(* The rate limiter (middleware/rate_limiter.py).  Time is the value of    *)
(* time.time(), taken as non-decreasing; several requests may arrive at    *)
(* the same instant.                                                       *)
(***************************************************************************)
MaxRate == 2
MaxWindow == 2
MaxTime == 2
MaxRequests == 4

\* _should_skip_rate_limiting: skip_paths
skip_paths == {"/health", "/", "/docs", "/openapi.json"}

\* the request paths: one that skips the limiter and one that does not
Paths == {"/health", "/tool/ingest_document"}

RECURSIVE newer_than(_, _)
newer_than(request_times, cutoff_time) ==
    IF request_times = <<>> THEN <<>>
    ELSE (IF Head(request_times) > cutoff_time THEN <<Head(request_times)>> ELSE <<>>)
         \o newer_than(Tail(request_times), cutoff_time)

\* RateLimitMiddleware._clean_old_requests
clean_old_requests(request_times, current_time) ==
    newer_than(request_times, current_time - window_seconds)

\* a variant that records the request whether or not it is limited
record_request_always(request_times, current_time, limited) ==
    Append(request_times, current_time)

\* _is_rate_limited: "Add current request", reached only when not limited
record_request(request_times, current_time, limited) ==
    IF limited THEN request_times ELSE Append(request_times, current_time)

\* _is_rate_limited for the cleaned list: (is_limited, the list it leaves)
is_rate_limited(request_times, current_time) ==
    LET cleaned == clean_old_requests(request_times, current_time)
        limited == Len(cleaned) >= rate_limit
    IN  [is_limited |-> limited,
         request_times |-> record_request(cleaned, current_time, limited)]

\* RateLimitMiddleware.dispatch for one request
Dispatch ==
    /\ Len(served) < MaxRequests
    /\ \E ip \in Clients, path \in Paths :
          IF path \in skip_paths
          THEN /\ served' = Append(served, [ip |-> ip, path |-> path, time |-> clock,
                                            answer |-> "passed"])
               /\ UNCHANGED requests
          ELSE LET checked == is_rate_limited(requests[ip], clock)
               IN  /\ requests' = [requests EXCEPT ![ip] = checked.request_times]
                   /\ served' = Append(served,
                                       [ip |-> ip, path |-> path, time |-> clock,
                                        answer |-> IF checked.is_limited
                                                   THEN "429" ELSE "passed"])
    /\ UNCHANGED <<rate_limit, window_seconds, clock>>
    /\ UNCHANGED <<chunker_vars, embedder_vars, ingest_vars, runs_vars>>

\* RateLimitMiddleware.cleanup_old_entries (an emptied entry is deleted; a
\* missing entry and an empty one behave alike)
CleanupOldEntries ==
    /\ requests' = [ip \in Clients |-> clean_old_requests(requests[ip], clock)]
    /\ requests' # requests
    /\ UNCHANGED <<rate_limit, window_seconds, clock, served>>
    /\ UNCHANGED <<chunker_vars, embedder_vars, ingest_vars, runs_vars>>

\* time passes
Tick ==
    /\ clock < MaxTime
    /\ clock' = clock + 1
    /\ UNCHANGED <<requests, rate_limit, window_seconds, served>>
    /\ UNCHANGED <<chunker_vars, embedder_vars, ingest_vars, runs_vars>>

\* RateLimitMiddleware.__init__
InitLimiter ==
    /\ requests = [ip \in Clients |-> <<>>]
    /\ rate_limit \in 1..MaxRate
    /\ window_seconds \in 1..MaxWindow
    /\ clock = 0
    /\ served = <<>>
    /\ ChunkerIdle /\ max_tokens = 2 /\ overlap_tokens = 0
    /\ EmbedderIdle /\ max_batch_size = 1
    /\ IngestIdle
    /\ RunsIdle

NextLimiter == Dispatch \/ CleanupOldEntries \/ Tick

SpecLimiter == InitLimiter /\ [][NextLimiter]_vars

\* the requests of ip the limiter admitted with admission time in (t - W, t]
AdmittedIn(ip, t) ==
    {k \in 1..Len(served) :
        /\ served[k].ip = ip
        /\ served[k].path \notin skip_paths
        /\ served[k].answer = "passed"
        /\ t - window_seconds < served[k].time
        /\ served[k].time <= t}

\* C30: for every client IP and every instant t, at most rate_limit requests
\* of that IP admitted by the limiter have their admission time in
\* (t - window_seconds, t]; rejected requests and requests to the skip paths
\* are not recorded, so whether the client is admitted now depends on its
\* admitted requests alone; skip paths are never answered 429.
C30_WindowBound ==
    /\ \A ip \in Clients : \A t \in 0..clock :
          Cardinality(AdmittedIn(ip, t)) <= rate_limit
    /\ \A ip \in Clients :
          /\ is_rate_limited(requests[ip], clock).is_limited
                <=> Cardinality(AdmittedIn(ip, clock)) >= rate_limit
          /\ Len(clean_old_requests(requests[ip], clock))
                = Cardinality(AdmittedIn(ip, clock))
    /\ \A k \in 1..Len(served) :
          served[k].path \in skip_paths => served[k].answer = "passed"

\* a client was admitted up to the limit, rejected within the window, passed
\* on a skip path meanwhile, and admitted again once the window had moved on
C30_Witness ==
    \E ip \in Clients :
        \E a \in 1..Len(served), r \in 1..Len(served),
           h \in 1..Len(served), b \in 1..Len(served) :
            /\ a < r /\ r < h /\ h < b
            /\ served[a].ip = ip /\ served[r].ip = ip
            /\ served[h].ip = ip /\ served[b].ip = ip
            /\ served[a].path \notin skip_paths /\ served[a].answer = "passed"
            /\ served[r].path \notin skip_paths /\ served[r].answer = "429"
            /\ served[h].path \in skip_paths
            /\ served[h].time = served[r].time
            /\ served[b].path \notin skip_paths /\ served[b].answer = "passed"
            /\ served[b].time = served[a].time + window_seconds

(***************************************************************************)
(* Concurrent ingest runs (routers/tools.py).  Every request runs          *)
(* ingest_document as a coroutine of its own; a step of a run is the       *)
(* return of the call it awaits followed by its code up to the next await. *)
(***************************************************************************)
\* a variant in which the locals of generate_embeddings_batch live on the
\* one EmbeddingService object
embedder_frame_on_service(r) == 1

\* the frame a call of generate_embeddings_batch works on: its own locals
embedder_frame(r) == r

\* the documents of the concurrent requests: unparseable bytes, a page
\* without text, a page of one chunk and a page of two chunks
TwoRunPdfs ==
    {[parses |-> FALSE, pages |-> <<>>],
     [parses |-> TRUE, pages |-> <<<<SP>>>>],
     [parses |-> TRUE, pages |-> <<<<"a">>>>],
     [parses |-> TRUE, pages |-> <<<<"a", ".", SP, "a">>>>]}

\* the chunks of a document as _create_chunk_metadata labels them:
\* "document_id": document_id
chunk_rows(cs, document_id) ==
    [i \in 1..Len(cs) |-> [document_id |-> document_id, chunk |-> cs[i]]]

row_chunks(rows) == [i \in 1..Len(rows) |-> rows[i].chunk]

\* chunk.copy() with new fields: the labels stay
relabel(rows, cs) ==
    [i \in 1..Len(rows) |-> [document_id |-> rows[i].document_id, chunk |-> cs[i]]]

\* generate_embeddings_batch: the locals after the filter
start_frame(ts) ==
    [texts |-> ts, filtered_data |-> filter_non_blank(ts), batch_start |-> 0,
     attempt |-> 0, embeddings_result |-> all_empty(ts)]

\* ingest_document after step 4: generate_embeddings_for_chunks returned
\* embeddings for the chunks, or raised (embeddings[i] out of range) and the
\* except clause kept the chunks without vectors
embedding_finished(rr, embeddings) ==
    [rr EXCEPT
        !.chunks_with_embeddings =
            IF Len(embeddings) < Len(rr.chunks)
            THEN relabel(rr.chunks, without_embeddings(row_chunks(rr.chunks)))
            ELSE relabel(rr.chunks, enrich(row_chunks(rr.chunks), embeddings)),
        !.pc = "insert_chunks"]

\* generate_embeddings_batch after a batch: the next call or the return
batch_resolved(rr, frame, ok) ==
    LET logged == [rr EXCEPT !.outcomes = Append(@, ok)]
    IN  IF frame.batch_start < Len(frame.filtered_data)
        THEN [logged EXCEPT !.pc = "api_call"]
        ELSE embedding_finished(logged, frame.embeddings_result)

\* step 1 returns: s3_service.download_pdf
DownloadReturns(r) ==
    /\ run[r].pc = "download"
    /\ \E outcome \in {"ok", "not_found", "invalid"} :
          run' = [run EXCEPT ![r] =
                    IF outcome = "ok" THEN [@ EXCEPT !.pc = "insert_document"]
                    ELSE [@ EXCEPT !.pc = "done",
                                   !.response = IF outcome = "not_found"
                                                THEN "http_404" ELSE "http_400"]]
    /\ UNCHANGED <<emb_frames, documents, doc_chunks>>
    /\ UNCHANGED <<chunker_vars, embedder_vars, ingest_vars, limiter_vars>>

\* step 2 returns: db.insert_document; then step 3 and the entry of step 4
InsertDocumentReturns(r) ==
    /\ run[r].pc = "insert_document"
    /\ \E inserted \in BOOLEAN :
          IF ~inserted
          THEN /\ run' = [run EXCEPT ![r] = [@ EXCEPT !.pc = "done",
                                                       !.response = "http_500"]]
               /\ UNCHANGED <<emb_frames, documents>>
          ELSE LET document_id == Len(documents) + 1
                   cs == process_pdf_for_chunks(run[r].pdf).chunks
                   rr == [run[r] EXCEPT !.document_id = document_id,
                                        !.chunks = chunk_rows(cs, document_id)]
               IN  /\ documents' = Append(documents, "processing")
                   /\ IF cs = <<>>
                      THEN /\ run' = [run EXCEPT ![r] =
                                        [rr EXCEPT !.pc = "update_status",
                                                   !.pending_status = "no_content"]]
                           /\ UNCHANGED emb_frames
                      ELSE IF filter_non_blank(chunk_texts(cs)) = <<>>
                      THEN /\ run' = [run EXCEPT ![r] =
                                        embedding_finished(rr, all_empty(chunk_texts(cs)))]
                           /\ UNCHANGED emb_frames
                      ELSE /\ run' = [run EXCEPT ![r] = [rr EXCEPT !.pc = "api_call"]]
                           /\ emb_frames' = [emb_frames EXCEPT ![embedder_frame(r)] =
                                                start_frame(chunk_texts(cs))]
    /\ UNCHANGED doc_chunks
    /\ UNCHANGED <<chunker_vars, embedder_vars, ingest_vars, limiter_vars>>

\* client.embeddings.create returns or raises; the code up to the next await
ApiCallReturns(r) ==
    /\ run[r].pc = "api_call"
    /\ LET frame == emb_frames[embedder_frame(r)]
           data  == batch_data_of(frame.batch_start, frame.filtered_data)
           input == batch_texts_of(frame.texts, data)
           answered == [frame EXCEPT
                           !.embeddings_result = map_back(@, data, api_embed(input)),
                           !.batch_start = @ + max_batch_size, !.attempt = 0]
           given_up == [frame EXCEPT
                           !.embeddings_result = resolve_failed_batch(@, data, input),
                           !.batch_start = @ + max_batch_size, !.attempt = 0]
       IN  \E outcome \in {"ok", "fail", "malformed"} :
              CASE outcome = "ok" ->
                     /\ emb_frames' = [emb_frames EXCEPT ![embedder_frame(r)] = answered]
                     /\ run' = [run EXCEPT ![r] = batch_resolved(@, answered, TRUE)]
                [] outcome = "fail" /\ on_failure(frame.attempt) = "give_up" ->
                     /\ emb_frames' = [emb_frames EXCEPT ![embedder_frame(r)] = given_up]
                     /\ run' = [run EXCEPT ![r] = batch_resolved(@, given_up, FALSE)]
                [] outcome = "fail" /\ on_failure(frame.attempt) # "give_up" ->
                     /\ run' = [run EXCEPT ![r] = [@ EXCEPT !.pc = "sleep"]]
                     /\ UNCHANGED emb_frames
                [] OTHER ->
                     /\ run' = [run EXCEPT ![r] =
                                  [@ EXCEPT !.chunks_with_embeddings =
                                                relabel(run[r].chunks, without_embeddings(
                                                            row_chunks(run[r].chunks))),
                                            !.malformed = TRUE,
                                            !.pc = "insert_chunks"]]
                     /\ UNCHANGED emb_frames
    /\ UNCHANGED <<documents, doc_chunks>>
    /\ UNCHANGED <<chunker_vars, embedder_vars, ingest_vars, limiter_vars>>

\* asyncio.sleep(delay) returns: the next attempt
SleepReturns(r) ==
    /\ run[r].pc = "sleep"
    /\ emb_frames' = [emb_frames EXCEPT ![embedder_frame(r)] =
                         [@ EXCEPT !.attempt = @ + 1]]
    /\ run' = [run EXCEPT ![r] = [@ EXCEPT !.pc = "api_call"]]
    /\ UNCHANGED <<documents, doc_chunks>>
    /\ UNCHANGED <<chunker_vars, embedder_vars, ingest_vars, limiter_vars>>

\* step 5 returns: db.insert_chunks stored the rows or raised
InsertChunksReturns(r) ==
    /\ run[r].pc = "insert_chunks"
    /\ \E stored \in BOOLEAN :
          /\ doc_chunks' = IF stored THEN doc_chunks \o run[r].chunks_with_embeddings
                           ELSE doc_chunks
          /\ run' = [run EXCEPT ![r] =
                       [@ EXCEPT !.handed = run[r].chunks_with_embeddings,
                                 !.insert_failed = ~stored,
                                 !.pending_status = IF stored THEN "completed" ELSE "error",
                                 !.pc = "update_status"]]
    /\ UNCHANGED <<emb_frames, documents>>
    /\ UNCHANGED <<chunker_vars, embedder_vars, ingest_vars, limiter_vars>>

\* db.update_document_status returns: the run ends
UpdateStatusReturns(r) ==
    /\ run[r].pc = "update_status"
    /\ \E ok \in BOOLEAN :
          /\ documents' = [documents EXCEPT ![run[r].document_id] =
                              update_document_status(@, run[r].pending_status, ok)]
          /\ run' = [run EXCEPT ![r] =
                       [@ EXCEPT !.status_lost = ~ok,
                                 !.response = IF run[r].pending_status = "error"
                                              THEN "http_500" ELSE "success",
                                 !.pc = "done"]]
    /\ UNCHANGED <<emb_frames, doc_chunks>>
    /\ UNCHANGED <<chunker_vars, embedder_vars, ingest_vars, limiter_vars>>

\* two requests are accepted, each for a document of its own
InitTwoRuns ==
    /\ run \in [Runs -> {[NoRun EXCEPT !.pc = "download", !.pdf = p] : p \in TwoRunPdfs}]
    /\ emb_frames = [r \in Runs |-> NoFrame]
    /\ documents = <<>>
    /\ doc_chunks = <<>>
    /\ ChunkerIdle /\ max_tokens = MaxT /\ overlap_tokens = 1
    /\ EmbedderIdle /\ max_batch_size = 1
    /\ IngestIdle
    /\ LimiterIdle

NextTwoRuns ==
    \E r \in Runs :
        \/ DownloadReturns(r)
        \/ InsertDocumentReturns(r)
        \/ ApiCallReturns(r)
        \/ SleepReturns(r)
        \/ InsertChunksReturns(r)
        \/ UpdateStatusReturns(r)

SpecTwoRuns == InitTwoRuns /\ [][NextTwoRuns]_vars

\* generate_embeddings_batch run alone on ts when the API resolves batch k
\* as outcomes[k] says
RECURSIVE embeddings_alone(_, _, _, _, _)
embeddings_alone(result, ts, start, outcomes, k) ==
    LET data == filter_non_blank(ts)
        this == batch_data_of(start, data)
    IN  IF start >= Len(data) \/ k > Len(outcomes) THEN result
        ELSE embeddings_alone(
                 IF outcomes[k]
                 THEN map_back(result, this, api_embed(batch_texts_of(ts, this)))
                 ELSE resolve_failed_batch(result, this, batch_texts_of(ts, this)),
                 ts, start + max_batch_size, outcomes, k + 1)

\* the chunk list run r hands to storage when it is executed alone with the
\* same document and the same answers of its collaborators
ChunksAlone(r) ==
    LET cs == process_pdf_for_chunks(run[r].pdf).chunks
    IN  chunk_rows(IF run[r].malformed THEN without_embeddings(cs)
                   ELSE enrich(cs, embeddings_alone(all_empty(chunk_texts(cs)),
                                                    chunk_texts(cs), 0,
                                                    run[r].outcomes, 1)),
                   run[r].document_id)

\* the status run r leaves on its document when it is executed alone
StatusAlone(r) ==
    IF run[r].status_lost THEN "processing"
    ELSE IF process_pdf_for_chunks(run[r].pdf).chunks = <<>> THEN "no_content"
    ELSE IF run[r].insert_failed THEN "error"
    ELSE "completed"

\* the rows of table doc_chunks that carry document_id
StoredFor(document_id) ==
    SelectSeq(doc_chunks, LAMBDA row : row.document_id = document_id)

\* C21: two ingest runs that interleave at their suspension points do not
\* affect each other: each run's chunk list and final document status equal
\* what the run produces when executed alone, and every chunk a run stores
\* carries that run's own document_id.
C21_RunsIndependent ==
    \A r \in Runs :
        (run[r].pc = "done" /\ run[r].document_id # 0) =>
            LET cs == process_pdf_for_chunks(run[r].pdf).chunks
            IN  /\ \A other \in Runs \ {r} : run[other].document_id # run[r].document_id
                /\ documents[run[r].document_id] = StatusAlone(r)
                /\ cs = <<>> => (run[r].handed = <<>> /\ StoredFor(run[r].document_id) = <<>>)
                /\ cs # <<>> =>
                      /\ run[r].handed = ChunksAlone(r)
                      /\ StoredFor(run[r].document_id)
                            = IF run[r].insert_failed THEN <<>> ELSE ChunksAlone(r)

\* both runs stored two chunks with vectors and completed; the run that
\* created its document first stored its chunks last
C21_Witness ==
    /\ \A r \in Runs :
          /\ run[r].pc = "done"
          /\ run[r].document_id # 0
          /\ documents[run[r].document_id] = "completed"
          /\ Len(run[r].handed) = 2
          /\ \A i \in 1..2 : run[r].handed[i].chunk.has_embedding
    /\ Len(doc_chunks) = 4
    /\ doc_chunks[1].document_id = 2
    /\ doc_chunks[4].document_id = 1

=============================================================================
